---- MODULE Spec2Model ----
(***************************************************************************)
(* pytbox: the resilient remote-call core shared by the vendor clients.    *)
(*   - the cloud call executor   (cloud/aliyun/client.py, cloud/volc)       *)
(*   - the HTTP retry loop       (netbox/client.py)                         *)
(*   - the idempotency cache     (dida365.py, alicloud/sls.py,              *)
(*                                log/victorialog.py, onepassword_connect)  *)
(*   - the single-id resolver    (netbox/client.py)                         *)
(*   - the parallel batch        (netbox/client.py)                         *)
(* Each component has its own variables and its own specification; the     *)
(* variables of the other components keep their initial values.            *)
(***************************************************************************)
EXTENDS Integers, Sequences, FiniteSets, TLC

(***************************************************************************)
(* Generic helpers                                                         *)
(***************************************************************************)
Min(a, b) == IF a <= b THEN a ELSE b

Max(a, b) == IF a >= b THEN a ELSE b

RECURSIVE Pow2(_)
Pow2(n) == IF n <= 0 THEN 1 ELSE 2 * Pow2(n - 1)

Last(s) == s[Len(s)]

Front(s) == SubSeq(s, 1, Len(s) - 1)

(***************************************************************************)
(* Error classification (cloud/aliyun/errors.py, cloud/volc/errors.py)     *)
(*                                                                         *)
(* A raw failure is described by the features the mappers read.  A Tea     *)
(* failure carries a vendor code and a message; the message is the set of  *)
(* patterns it contains, so one message can match several rules.           *)
(***************************************************************************)
Kinds ==
    {"Auth", "Permission", "Throttled", "Timeout", "NotFound",
     "Region", "InvalidRequest", "Upstream"}

\* vendor error codes, lower-cased as the mapper compares them
TeaCodes ==
    {"", "invalidaccesskeyid", "forbidden", "throttling",
     "invalidregionid", "entitynotfound", "internalerror"}

\* patterns a message can contain
MsgPatterns == {"auth", "perm", "throttle", "region", "notfound", "timeout"}

\* messages: at most two patterns at once
Messages == {m \in SUBSET MsgPatterns : Cardinality(m) <= 2}

TeaErrors ==
    [cls : {"unretryable"}, code : {""}, msg : {{}}]
        \cup [cls : {"plain"}, code : {""}, msg : {{}, {"timeout"}, {"perm"}}]
        \cup [cls : {"tea"}, code : TeaCodes, msg : Messages]

\* map_tea_exception: first matching rule wins
MapTeaException(e) ==
    IF e.cls = "unretryable" THEN "Upstream"
    ELSE IF e.cls # "tea"
        THEN IF "timeout" \in e.msg THEN "Timeout" ELSE "Upstream"
    ELSE IF e.code = "invalidaccesskeyid" \/ "auth" \in e.msg THEN "Auth"
    ELSE IF e.code = "forbidden" \/ "perm" \in e.msg THEN "Permission"
    ELSE IF e.code = "throttling" \/ "throttle" \in e.msg THEN "Throttled"
    ELSE IF e.code = "invalidregionid" \/ "region" \in e.msg THEN "Region"
    ELSE IF e.code = "entitynotfound" \/ "notfound" \in e.msg THEN "NotFound"
    ELSE IF "timeout" \in e.msg THEN "Timeout"
    ELSE "Upstream"

\* Volc failures: an optional JSON body with Error.Code / Error.Message, and
\* the text of the exception itself
VolcCodes ==
    {"", "invalidparameter", "unauthorized", "forbidden", "throttling", "internalerror"}

VolcBodyMsgs == {{}, {"param"}, {"ratelimit"}}

VolcRawMsgs == {{}, {"timeout"}, {"perm"}, {"throttle"}, {"timeout", "perm"}}

VolcErrors ==
    [body : {"none", "unparsable"}, code : {""}, bmsg : {{}}, raw : VolcRawMsgs]
        \cup [body : {"json"}, code : VolcCodes, bmsg : VolcBodyMsgs, raw : VolcRawMsgs]

\* the rules applied to the text of the exception when the body decides nothing
MapVolcRaw(e) ==
    IF "timeout" \in e.raw THEN "Timeout"
    ELSE IF "perm" \in e.raw THEN "Permission"
    ELSE IF "throttle" \in e.raw THEN "Throttled"
    ELSE "Upstream"

\* map_volc_exception
MapVolcException(e) ==
    IF e.body = "json"
        THEN IF e.code = "invalidparameter" \/ "param" \in e.bmsg THEN "InvalidRequest"
             ELSE IF e.code = "unauthorized" THEN "Auth"
             ELSE IF e.code = "forbidden" THEN "Permission"
             ELSE IF e.code = "throttling" \/ "ratelimit" \in e.bmsg THEN "Throttled"
             ELSE MapVolcRaw(e)
        ELSE MapVolcRaw(e)

\* the failure the executor builds for an expired deadline: RuntimeError("timed out")
TimedOutTea == [cls |-> "plain", code |-> "", msg |-> {"timeout"}]

TimedOutVolc == [body |-> "none", code |-> "", bmsg |-> {}, raw |-> {"timeout"}]

MapException(provider, e) ==
    IF provider = "aliyun" THEN MapTeaException(e) ELSE MapVolcException(e)

\* isinstance(e, UnretryableException); the Volc SDK has no such wrapper
IsUnretryable(provider, e) == provider = "aliyun" /\ e.cls = "unretryable"

RawErrors(provider) == IF provider = "aliyun" THEN TeaErrors ELSE VolcErrors

TimedOut(provider) == IF provider = "aliyun" THEN TimedOutTea ELSE TimedOutVolc

\* _is_retryable_error
\* fault: Upstream is not retried
RetryableKindsWithoutUpstream == {"Throttled", "Timeout"}

\* _is_retryable_error: ThrottledError, TimeoutError, UpstreamError
RetryableKinds == {"Throttled", "Timeout", "Upstream"}

IsRetryableError(kind) == kind \in RetryableKinds


(***************************************************************************)
(* State                                                                   *)
(***************************************************************************)
VARIABLES
    \* cloud call executor: AliyunClient.call / VolcClient.call
    cPc,         \* "idle", "running", "returned", "raised"
    cProvider,   \* "aliyun" or "volc"
    cRetries,    \* cfg.retries as the caller supplied it
    cBase,       \* cfg.retry_backoff_s
    cAttempt,    \* the loop variable of call (0-based)
    cOutcomes,   \* what each invocation of fn ended as, in order
    cSleeps,     \* the arguments of time.sleep, in order
    cLogs,       \* the result tags handed to _log_step, in order
    cResult,     \* the value returned or the kind raised
    cLate,       \* per timed-out attempt: how fn ended after its deadline
    cWrapped,    \* the attempts in which fn raised UnretryableException
    cExpired,    \* the attempt whose deadline passed, while the executor is left
    cInFlight,   \* the attempts whose fn is still running
    cPeak,       \* the most invocations of fn that ran at once
    \* HTTP retry loop: _request_with_retry of NetboxClient and of Dida365
    hClient,     \* "netbox" or "dida365"
    hPc,         \* "new", "idle", "running", "done"
    hMaxRetries, \* self.max_retries
    hBase,       \* self.retry_backoff_base
    hUrlOk,      \* the client has a url, or api_url is absolute
    hAttempt,    \* the loop variable (1-based)
    hOutcomes,   \* how each requests.request ended (a status, or an exception), in order
    hSleeps,     \* the arguments of time.sleep, in order
    hLogs,       \* the result tags handed to _log_step, in order
    hResult,     \* the ReturnResponse returned
    \* idempotency cache: _run_idempotent of Dida365, AliCloudSls, Victorialog
    \* ("response") and of OnePasswordConnect ("raw")
    clock,       \* time.time()
    iVariant,    \* "response" or "raw"
    iThreads,    \* the threads that call the client
    iCache,      \* self._idempotency_cache: a set of [key, at, resp], one per key
    iPc,         \* per thread: "idle", "keyed", "calling", "called"
    iKey,        \* per thread: the key of the call in progress
    iNow,        \* per thread: now, as read by _run_idempotent
    iResp,       \* per thread: what caller() returned
    iSerial,     \* how often the underlying operation has been executed
    iCalls,      \* the finished calls, in the order they returned
    \* parallel batch: NetboxClient._run_parallel_batch
    bPc,         \* "idle", "pool", "done"
    bItems,      \* items, each described by what dedupe_key_getter does with it
    bMaxWorkers, \* max_workers
    bWorkerCount,\* worker_count
    bQueue,      \* the submitted work items no pool thread has taken yet
    bRunning,    \* the indexes whose worker call is executing
    bFinished,   \* the indexes whose future is done and not yet yielded
    bOutcome,    \* per index: how its worker call ended
    bInvoked,    \* per index: how often worker was called for it
    bIndexed,    \* indexed_results, a dict: its entries in insertion order
    bReturn,     \* the ReturnResponse returned
    bPeak,       \* the largest number of worker calls seen executing at once
    bKeyCalls,   \* the calls of dedupe_key_getter made
    \* single-id resolver: NetboxClient._query_single_id
    lThreads,    \* the threads that call the client
    lCache,      \* self._id_lookup_cache: a set of [key, id], one per key
    lPc,         \* per thread: "idle", "querying"
    lKey,        \* per thread: cache_key of the lookup in progress
    lCalls,      \* the finished lookups, in the order they returned
    lLast,       \* the lookup whose list query returned last: what the query
                 \* answered and the cache as it was before
    \* upsert: NetboxClient.add_or_update_region
    uPc,         \* "idle", "resolving"
    uCalls,      \* the finished upserts, in order: the lookup each made, the
                 \* writes it issued, what it returned
    \* error classifier: map_tea_exception / map_volc_exception
    kErr,        \* the provider and the raw failure classified last
    kKind,       \* the kind it was mapped to
    \* key-step logging: _log_step
    gSecret,     \* the secret the client is configured with
    gLines,      \* the log lines emitted, each the set of text atoms it contains
    \* Feishu token provider: TokenProvider
    tPc,         \* "new" before construction, "ready" after
    tNow,        \* int(time.time())
    tBuffer,     \* _refresh_buffer_seconds
    tFileEnabled, \* _file_cache_enabled
    tMemory,     \* _memory_token, _memory_expires_at
    tFile,       \* the content of the cache file
    tIssued,     \* tokens issued so far; the next fetched token is tIssued + 1
    tLast,       \* the last get_token call: what it saw and what it returned
    \* Feishu Client.request
    qPc,         \* "idle", "loop", "done"
    qUseAuth,    \* use_auth
    qAttempt,    \* attempt, 1-based
    qRefreshedOnce, \* refreshed_once
    qForced,     \* forced refreshes made by this request
    qInvalid,    \* invalid-token answers received by this request
    qResult,     \* what the request returned
    qToken,      \* token, the one the next request carries
    qRefreshed,  \* the token a forced refresh of this request obtained, 0 if none
    qResent,     \* the token of the first request sent after that refresh, 0 if none
    \* Feishu TokenProvider.get_token called by several threads
    mPc,         \* per thread: "idle", "waiting", "locked", "refreshing", "done"
    mLock,       \* the thread that holds _lock, 0 if none
    mGot,        \* per thread: the token get_token returned, 0 if none
    mFetched,    \* what the fetcher answered, call by call
    mOverlap,    \* a thread called get_token while another call was under way
    mCold,       \* no valid token was cached when any of the calls was made
    \* idempotency keys of two write requests
    jReq,        \* per slot: the request, operation, time and parts
    jKey,        \* per slot: the key built for it
    \* Volc region override: VolcClient.use_region
    rPc,         \* "new" before construction, "ready" after
    rDefault,    \* cfg.region
    rRegion,     \* _api_client.configuration.region
    rStack,      \* the open use_region blocks, innermost last
    rLast        \* the last region operation

callVars ==
    <<cPc, cProvider, cRetries, cBase, cAttempt, cOutcomes, cSleeps, cLogs, cResult,
      cLate, cWrapped, cExpired, cInFlight, cPeak>>

httpVars ==
    <<hClient, hPc, hMaxRetries, hBase, hUrlOk, hAttempt, hOutcomes, hSleeps, hLogs,
      hResult>>

idemVars ==
    <<clock, iVariant, iThreads, iCache, iPc, iKey, iNow, iResp, iSerial, iCalls>>

batchVars ==
    <<bPc, bItems, bMaxWorkers, bWorkerCount, bQueue, bRunning, bFinished, bOutcome,
      bInvoked, bIndexed, bReturn, bPeak, bKeyCalls>>

lookupVars == <<lThreads, lCache, lPc, lKey, lCalls, lLast>>

upsertVars == <<uPc, uCalls>>

classifyVars == <<kErr, kKind>>

logVars == <<gSecret, gLines>>

tokenConcVars == <<mPc, mLock, mGot, mFetched, mOverlap, mCold>>

keyVars == <<jReq, jKey>>

regionVars == <<rPc, rDefault, rRegion, rStack, rLast>>

feishuVars ==
    <<tPc, tNow, tBuffer, tFileEnabled, tMemory, tFile, tIssued, tLast,
      qPc, qUseAuth, qAttempt, qRefreshedOnce, qForced, qInvalid, qResult,
      qToken, qRefreshed, qResent>>

(***************************************************************************)
(* Inputs                                                                  *)
(***************************************************************************)
\* largest retry setting a caller supplies
MaxRetrySetting == 5

RetrySettings == (0 - 2) .. MaxRetrySetting

\* backoff bases, in units of the smallest one
BackoffBases == {0, 1, 3}

Providers == {"aliyun", "volc"}

NoResult == [status |-> "none"]

(***************************************************************************)
(* Cloud call executor (cloud/aliyun/client.py, cloud/volc/client.py)      *)
(***************************************************************************)
\* the cap on cfg.retries
RetryCap == 3

\* fault: the upper clamp is left out
ClampRetriesUncapped(r) == Max(r, 0)

\* retries = min(max(self.cfg.retries, 0), 3)
ClampRetries(r) == Min(Max(r, 0), RetryCap)

\* fault: the exponent is taken from a 1-based attempt number
CallBackoffOneBased(base, attempt) == base * Pow2(attempt + 1)

\* time.sleep(self.cfg.retry_backoff_s * (2**attempt)), attempt 0-based
CallBackoff(base, attempt) == base * Pow2(attempt)

\* fault: a failed attempt is never repeated
CallShouldRetryNever(attempt, retries, kind) == FALSE

\* fault: the kind of the failure is not consulted
CallShouldRetryAnyKind(attempt, retries, kind) == attempt < retries

\* if attempt < retries and self._is_retryable_error(mapped)
CallShouldRetry(attempt, retries, kind) ==
    attempt < retries /\ IsRetryableError(kind)

\* the result tag of a failed attempt
CallFailTag(attempt, retries, deadline) ==
    IF deadline
        THEN IF attempt < retries THEN "timeout_retry" ELSE "timeout_fail"
        ELSE IF attempt < retries THEN "retry" ELSE "fail"

InitCall ==
    /\ cPc = "idle"
    /\ cProvider = "aliyun"
    /\ cRetries = 0
    /\ cBase = 0
    /\ cAttempt = 0
    /\ cOutcomes = <<>>
    /\ cSleeps = <<>>
    /\ cLogs = <<>>
    /\ cResult = NoResult
    /\ cLate = <<>>
    /\ cWrapped = {}
    /\ cExpired = <<>>
    /\ cInFlight = {}
    /\ cPeak = 0

\* call(action, fn) on a client built with cfg.retries = r, cfg.retry_backoff_s = b
CallBegin(p, r, b) ==
    /\ cPc = "idle"
    /\ cPc' = "running"
    /\ cProvider' = p
    /\ cRetries' = r
    /\ cBase' = b
    /\ cAttempt' = 0
    /\ UNCHANGED <<cOutcomes, cSleeps, cLogs, cResult, cLate, cWrapped, cExpired, cInFlight,
                   cPeak>>

\* one pass of the loop in which fn returns within the deadline
CallAttemptOk ==
    /\ cPc = "running"
    /\ cExpired = <<>>
    /\ cPeak' = Max(cPeak, Cardinality(cInFlight) + 1)
    /\ cAttempt <= ClampRetries(cRetries)
    /\ cOutcomes' = Append(cOutcomes, "ok")
    /\ cLogs' = Append(cLogs, "ok")
    /\ cResult' = [status |-> "ok", attempt |-> cAttempt]
    /\ cPc' = "returned"
    /\ UNCHANGED <<cProvider, cRetries, cBase, cAttempt, cSleeps, cLate, cWrapped, cExpired,
                   cInFlight>>

\* the tail shared by both except branches: log, then sleep and continue, or raise
CallFailed(kind, deadline) ==
    LET retries == ClampRetries(cRetries) IN
    /\ cOutcomes' = Append(cOutcomes, IF deadline THEN "deadline" ELSE kind)
    /\ cLogs' = Append(cLogs, CallFailTag(cAttempt, retries, deadline))
    /\ IF CallShouldRetry(cAttempt, retries, kind)
          THEN /\ cSleeps' = Append(cSleeps, CallBackoff(cBase, cAttempt))
               /\ cAttempt' = cAttempt + 1
               /\ UNCHANGED <<cPc, cResult>>
          ELSE /\ cPc' = "raised"
               /\ cResult' = [status |-> "raised", kind |-> kind]
               /\ UNCHANGED <<cSleeps, cAttempt>>
    /\ UNCHANGED <<cProvider, cRetries, cBase>>

\* how fn can end once its deadline has passed
LateOutcomes == {"ok", "error"}

\* fault: a late success of fn is handed back after all
InvokeWithTimeoutLateResult(late) ==
    IF late = "ok" THEN "ok" ELSE "FutureTimeoutError"

\* _invoke_with_timeout when fn is not done at the deadline:
\* future.result(timeout=...) raises FutureTimeoutError; leaving the with
\* block waits for fn, and what fn ends as stays in the dropped future
InvokeWithTimeoutExpired(late) == "FutureTimeoutError"

\* fault: the executor is left without waiting for fn, shutdown(wait=False)
ExecutorExitedNoWait(inFlight) == TRUE

\* with ThreadPoolExecutor(max_workers=1) as executor: leaving the block
\* is shutdown(wait=True), which returns once fn has ended
ExecutorExited(inFlight) == inFlight = {}

\* one pass, first half: fn is submitted and future.result(timeout) raises
\* FutureTimeoutError while fn is running; late is how fn will end
CallAttemptDeadline(late) ==
    /\ cPc = "running"
    /\ cExpired = <<>>
    /\ cAttempt <= ClampRetries(cRetries)
    /\ cExpired' = <<[attempt |-> cAttempt, late |-> late]>>
    /\ cInFlight' = cInFlight \cup {cAttempt}
    /\ cPeak' = Max(cPeak, Cardinality(cInFlight) + 1)
    /\ UNCHANGED <<cPc, cProvider, cRetries, cBase, cAttempt, cOutcomes, cSleeps, cLogs,
                   cResult, cLate, cWrapped>>

\* the fn of a timed-out attempt ends
CallOperationEnds(a) ==
    /\ a \in cInFlight
    /\ cInFlight' = cInFlight \ {a}
    /\ UNCHANGED <<cPc, cProvider, cRetries, cBase, cAttempt, cOutcomes, cSleeps, cLogs,
                   cResult, cLate, cWrapped, cExpired, cPeak>>

\* one pass, second half: the executor is left, FutureTimeoutError reaches
\* call and the except branch runs
CallDeadlineHandled ==
    /\ cPc = "running"
    /\ cExpired # <<>>
    /\ ExecutorExited(cInFlight)
    /\ cExpired' = <<>>
    /\ cLate' = Append(cLate, cExpired[1])
    /\ UNCHANGED <<cWrapped, cInFlight, cPeak>>
    /\ IF InvokeWithTimeoutExpired(cExpired[1].late) = "FutureTimeoutError"
          THEN CallFailed(MapException(cProvider, TimedOut(cProvider)), TRUE)
          ELSE /\ cOutcomes' = Append(cOutcomes, "ok")
               /\ cLogs' = Append(cLogs, "ok")
               /\ cResult' = [status |-> "ok", attempt |-> cAttempt]
               /\ cPc' = "returned"
               /\ UNCHANGED <<cProvider, cRetries, cBase, cAttempt, cSleeps>>

\* one pass in which fn raises e
CallAttemptError(e) ==
    /\ cPc = "running"
    /\ cExpired = <<>>
    /\ cAttempt <= ClampRetries(cRetries)
    /\ CallFailed(MapException(cProvider, e), FALSE)
    /\ cWrapped' = IF IsUnretryable(cProvider, e) THEN cWrapped \cup {cAttempt} ELSE cWrapped
    /\ cPeak' = Max(cPeak, Cardinality(cInFlight) + 1)
    /\ UNCHANGED <<cLate, cExpired, cInFlight>>

NextCall ==
    \/ \E p \in Providers, r \in RetrySettings, b \in BackoffBases : CallBegin(p, r, b)
    \/ CallAttemptOk
    \/ \E late \in LateOutcomes : CallAttemptDeadline(late)
    \/ \E a \in cInFlight : CallOperationEnds(a)
    \/ CallDeadlineHandled
    \/ \E e \in RawErrors(cProvider) : CallAttemptError(e)

(***************************************************************************)
(* HTTP retry loops (netbox/client.py, dida365.py)                         *)
(***************************************************************************)
\* the cap on max_retries
MaxRetriesCap == 3

\* NetboxClient: self.max_retries = min(max(max_retries, 1), 3)
ClampMaxRetries(m) == Min(Max(m, 1), MaxRetriesCap)

\* Dida365: self.max_retries = min(max_retries, 3)
DidaClampMaxRetries(m) == Min(m, MaxRetriesCap)

HttpClients == {"netbox", "dida365"}

StatusCodes == {200, 204, 301, 400, 404, 429, 500, 501, 503}

\* NetboxClient._is_retryable_status
IsRetryableStatus(status) == status = 429 \/ status >= 500

\* Dida365: response.status_code in (429, 500, 502, 503, 504)
DidaIsRetryableStatus(status) == status \in {429, 500, 502, 503, 504}

IsSuccessStatus(status) == 200 <= status /\ status < 300

\* time.sleep(self.retry_backoff_base * (2 ** (attempt - 1))), attempt 1-based
HttpBackoff(base, attempt) == base * Pow2(attempt - 1)

\* should_retry for a response that is not 2xx
HttpShouldRetryStatus(status, attempt, maxRetries) ==
    IsRetryableStatus(status) /\ attempt < maxRetries

\* fault: a failed pass is retried, and slept after, whatever its number
HttpShouldRetryExceptionAlways(attempt, maxRetries) == TRUE

\* should_retry for Timeout / RequestException
HttpShouldRetryException(attempt, maxRetries) == attempt < maxRetries

InitHttp ==
    /\ hClient = "netbox"
    /\ hPc = "new"
    /\ hMaxRetries = 1
    /\ hBase = 0
    /\ hUrlOk = TRUE
    /\ hAttempt = 1
    /\ hOutcomes = <<>>
    /\ hSleeps = <<>>
    /\ hLogs = <<>>
    /\ hResult = NoResult

\* NetboxClient(url, token, max_retries = m, retry_backoff_base = b)
NetboxNew(m, b) ==
    /\ hPc = "new"
    /\ hPc' = "idle"
    /\ hClient' = "netbox"
    /\ hMaxRetries' = ClampMaxRetries(m)
    /\ hBase' = b
    /\ UNCHANGED <<hUrlOk, hAttempt, hOutcomes, hSleeps, hLogs, hResult>>

\* Dida365(access_token, cookie, max_retries = m, retry_backoff_base = b)
Dida365New(m, b) ==
    /\ hPc = "new"
    /\ hPc' = "idle"
    /\ hClient' = "dida365"
    /\ hMaxRetries' = DidaClampMaxRetries(m)
    /\ hBase' = b
    /\ UNCHANGED <<hUrlOk, hAttempt, hOutcomes, hSleeps, hLogs, hResult>>

\* NetboxClient: if not self.url and not api_url.startswith("http");
\* Dida365 always has its base_url
UrlGuardFails(client, urlOk) == client = "netbox" /\ ~urlOk

\* _request_with_retry up to the loop: the url guard
HttpBegin(urlOk) ==
    /\ hPc = "idle"
    /\ hUrlOk' = urlOk
    /\ hAttempt' = 1
    /\ IF UrlGuardFails(hClient, urlOk)
          THEN /\ hPc' = "done"
               /\ hResult' = [status |-> "fail", why |-> "no url", attempt |-> 0]
          ELSE hPc' = "running" /\ UNCHANGED hResult
    /\ UNCHANGED <<hClient, hMaxRetries, hBase, hOutcomes, hSleeps, hLogs>>

\* NetboxClient: one pass of the loop in which requests.request returns a
\* response
HttpAttemptStatus(status) ==
    /\ hClient = "netbox"
    /\ hPc = "running"
    /\ hAttempt <= hMaxRetries
    /\ hOutcomes' = Append(hOutcomes, [kind |-> "response", status |-> status])
    /\ IF IsSuccessStatus(status)
          THEN /\ hLogs' = Append(hLogs, "ok")
               /\ hResult' = [status |-> "ok", why |-> "success", attempt |-> hAttempt]
               /\ hPc' = "done"
               /\ UNCHANGED <<hSleeps, hAttempt>>
          ELSE IF HttpShouldRetryStatus(status, hAttempt, hMaxRetries)
                  THEN /\ hLogs' = Append(hLogs, "retry")
                       /\ hSleeps' = Append(hSleeps, HttpBackoff(hBase, hAttempt))
                       /\ hAttempt' = hAttempt + 1
                       /\ UNCHANGED <<hPc, hResult>>
                  ELSE /\ hLogs' = Append(hLogs, "fail")
                       /\ hResult' =
                              [status |-> "fail", why |-> "failed", attempt |-> hAttempt]
                       /\ hPc' = "done"
                       /\ UNCHANGED <<hSleeps, hAttempt>>
    /\ UNCHANGED <<hClient, hMaxRetries, hBase, hUrlOk>>

\* NetboxClient: one pass in which requests.request raises Timeout /
\* RequestException
HttpAttemptException ==
    /\ hClient = "netbox"
    /\ hPc = "running"
    /\ hAttempt <= hMaxRetries
    /\ hOutcomes' = Append(hOutcomes, [kind |-> "exception", status |-> 0])
    /\ IF HttpShouldRetryException(hAttempt, hMaxRetries)
          THEN /\ hLogs' = Append(hLogs, "retry")
               /\ hSleeps' = Append(hSleeps, HttpBackoff(hBase, hAttempt))
               /\ hAttempt' = hAttempt + 1
               /\ UNCHANGED <<hPc, hResult>>
          ELSE /\ hLogs' = Append(hLogs, "fail")
               /\ hResult' =
                      [status |-> "fail", why |-> "exception", attempt |-> hAttempt]
               /\ hPc' = "done"
               /\ UNCHANGED <<hSleeps, hAttempt>>
    /\ UNCHANGED <<hClient, hMaxRetries, hBase, hUrlOk>>

\* Dida365: one pass of the loop in which requests.request returns a
\* response.  A retryable status is logged as retry_http_<status>; on the
\* last attempt the pass then falls through to the failure return, which
\* logs http_<status> as well.
DidaAttemptStatus(status) ==
    /\ hClient = "dida365"
    /\ hPc = "running"
    /\ hAttempt <= hMaxRetries
    /\ hOutcomes' = Append(hOutcomes, [kind |-> "response", status |-> status])
    /\ IF DidaIsRetryableStatus(status) /\ hAttempt < hMaxRetries
          THEN /\ hLogs' = Append(hLogs, "retry_http")
               /\ hSleeps' = Append(hSleeps, HttpBackoff(hBase, hAttempt))
               /\ hAttempt' = hAttempt + 1
               /\ UNCHANGED <<hPc, hResult>>
          ELSE /\ hLogs' = IF DidaIsRetryableStatus(status)
                              THEN hLogs \o <<"retry_http", "http">>
                              ELSE Append(hLogs, "http")
               /\ hResult' =
                      IF IsSuccessStatus(status)
                          THEN [status |-> "ok", why |-> "success", attempt |-> hAttempt]
                          ELSE [status |-> "fail", why |-> "failed", attempt |-> hAttempt]
               /\ hPc' = "done"
               /\ UNCHANGED <<hSleeps, hAttempt>>
    /\ UNCHANGED <<hClient, hMaxRetries, hBase, hUrlOk>>

\* Dida365: one pass in which requests.request raises RequestException
DidaAttemptException ==
    /\ hClient = "dida365"
    /\ hPc = "running"
    /\ hAttempt <= hMaxRetries
    /\ hOutcomes' = Append(hOutcomes, [kind |-> "exception", status |-> 0])
    /\ hLogs' = Append(hLogs, "request_exception")
    /\ IF hAttempt < hMaxRetries
          THEN /\ hSleeps' = Append(hSleeps, HttpBackoff(hBase, hAttempt))
               /\ hAttempt' = hAttempt + 1
               /\ UNCHANGED <<hPc, hResult>>
          ELSE /\ hResult' =
                      [status |-> "fail", why |-> "exception", attempt |-> hAttempt]
               /\ hPc' = "done"
               /\ UNCHANGED <<hSleeps, hAttempt>>
    /\ UNCHANGED <<hClient, hMaxRetries, hBase, hUrlOk>>

\* the for loop ends without a return: range(1, self.max_retries + 1) is
\* used up, which happens at once when self.max_retries < 1
HttpLoopExhausted ==
    /\ hPc = "running"
    /\ hAttempt > hMaxRetries
    /\ hResult' = [status |-> "fail", why |-> "after retries", attempt |-> 0]
    /\ hPc' = "done"
    /\ UNCHANGED <<hClient, hMaxRetries, hBase, hUrlOk, hAttempt, hOutcomes, hSleeps,
                   hLogs>>

NextHttp ==
    \/ \E m \in RetrySettings, b \in BackoffBases : NetboxNew(m, b)
    \/ \E m \in RetrySettings, b \in BackoffBases : Dida365New(m, b)
    \/ \E u \in BOOLEAN : HttpBegin(u)
    \/ \E s \in StatusCodes : HttpAttemptStatus(s)
    \/ HttpAttemptException
    \/ \E s \in StatusCodes : DidaAttemptStatus(s)
    \/ DidaAttemptException
    \/ HttpLoopExhausted


(***************************************************************************)
(* Idempotency cache (dida365.py, alicloud/sls.py, log/victorialog.py,     *)
(* onepassword_connect.py)                                                 *)
(***************************************************************************)
\* idempotency_ttl_seconds, in clock units
Ttl == 2

\* the last clock value of a behaviour
MaxClock == 4

\* the calls of one behaviour
MaxCalls == 3

AllThreads == {1, 2}

IdemOps == {"task_create"}

\* strings are sequences of characters
Sep == "|"

\* the parts a write method hashes, each a string
IdemPayloads == {<< <<"a">> >>, << <<"b">> >>}

\* "|".join(parts)
RECURSIVE JoinParts(_)
JoinParts(parts) ==
    IF parts = <<>> THEN <<>>
    ELSE IF Len(parts) = 1 THEN parts[1]
    ELSE parts[1] \o <<Sep>> \o JoinParts(Tail(parts))

\* window = int(time.time() // self.idempotency_ttl_seconds)
Window(t) == t \div Ttl

\* _build_idempotency_key: sha256 over operation|window|parts; the digest is
\* taken to be injective on the string it hashes
BuildIdempotencyKey(op, t, parts) ==
    [op |-> op, window |-> Window(t), body |-> JoinParts(parts)]

\* fault: no entry ever counts as expired, the sweep removes nothing
IsExpiredNever(createdAt, now) == FALSE

\* if now_ts - created_at > self.idempotency_ttl_seconds
IsExpired(createdAt, now) == now - createdAt > Ttl

\* fault: the filter of the sweep is inverted
CleanupKeepsExpired(cache, now) == {e \in cache : IsExpired(e.at, now)}

\* _cleanup_idempotency_cache
CleanupIdempotencyCache(cache, now) == {e \in cache : ~IsExpired(e.at, now)}

\* fault: the entry of an earlier window answers for the same payload
CacheGetAnyWindow(cache, key) ==
    {e \in cache : e.key.op = key.op /\ e.key.body = key.body}

\* self._idempotency_cache.get(key)
CacheGet(cache, key) == {e \in cache : e.key = key}

\* cached and now - cached[0] <= self.idempotency_ttl_seconds
IsLiveHit(hits, now) == \E e \in hits : now - e.at <= Ttl

\* self._idempotency_cache[key] = (now, resp)
CachePut(cache, key, now, resp) ==
    {e \in cache : e.key # key} \cup {[key |-> key, at |-> now, resp |-> resp]}

\* fault: the result is stored whatever its code
ShouldStoreAlways(variant, resp) == TRUE

\* if resp.code == 0 (Dida365, AliCloudSls, Victorialog); OnePasswordConnect
\* stores whatever caller() returned
ShouldStore(variant, resp) == variant = "raw" \/ resp.code = 0

\* what caller() can end as: a success, a failed ReturnResponse, an exception.
\* OnePasswordConnect's caller returns the SDK value or raises.
CallerOutcomes(variant) ==
    IF variant = "raw" THEN {"ok", "raise"} ELSE {"ok", "fail", "raise"}

NoKey == [op |-> "", window |-> 0, body |-> <<>>]

NoResp == [code |-> 0 - 1, serial |-> 0]

Raised == [code |-> 2, serial |-> 0]

InitIdemWith(threads, variants) ==
    /\ clock = 0
    /\ iVariant \in variants
    /\ iThreads = threads
    /\ iCache = {}
    /\ iPc = [t \in AllThreads |-> "idle"]
    /\ iKey = [t \in AllThreads |-> NoKey]
    /\ iNow = [t \in AllThreads |-> 0]
    /\ iResp = [t \in AllThreads |-> NoResp]
    /\ iSerial = 0
    /\ iCalls = <<>>

\* time passes
Tick ==
    /\ clock < MaxClock
    /\ clock' = clock + 1
    /\ UNCHANGED <<iVariant, iThreads, iCache, iPc, iKey, iNow, iResp, iSerial, iCalls>>

CallsBegun == Len(iCalls) + Cardinality({t \in AllThreads : iPc[t] # "idle"})

\* the call of thread t returns resp; its locals are gone
Returned(t, resp, ran, now) ==
    /\ iCalls' = Append(iCalls,
           [thread |-> t, key |-> iKey[t], now |-> now, resp |-> resp, ran |-> ran])
    /\ iPc' = [iPc EXCEPT ![t] = "idle"]
    /\ iKey' = [iKey EXCEPT ![t] = NoKey]
    /\ iNow' = [iNow EXCEPT ![t] = 0]
    /\ iResp' = [iResp EXCEPT ![t] = NoResp]

\* a write method up to its call of _run_idempotent: the key is built
IdemBuildKey(t, op, parts) ==
    /\ t \in iThreads
    /\ iPc[t] = "idle"
    /\ CallsBegun < MaxCalls
    /\ iKey' = [iKey EXCEPT ![t] = BuildIdempotencyKey(op, clock, parts)]
    /\ iPc' = [iPc EXCEPT ![t] = "keyed"]
    /\ UNCHANGED <<clock, iVariant, iThreads, iCache, iNow, iResp, iSerial, iCalls>>

\* _run_idempotent up to caller(): read the clock, sweep, look the key up
IdemLookup(t) ==
    LET now == clock
        swept == CleanupIdempotencyCache(iCache, now)
        hits == CacheGet(swept, iKey[t])
    IN  /\ iPc[t] = "keyed"
        /\ iCache' = swept
        /\ IF IsLiveHit(hits, now)
              THEN Returned(t, (CHOOSE e \in hits : TRUE).resp, FALSE, now)
              ELSE /\ iPc' = [iPc EXCEPT ![t] = "calling"]
                   /\ iNow' = [iNow EXCEPT ![t] = now]
                   /\ UNCHANGED <<iKey, iResp, iCalls>>
        /\ UNCHANGED <<clock, iVariant, iThreads, iSerial>>

\* caller() runs the underlying operation
IdemInvoke(t, outcome) ==
    /\ iPc[t] = "calling"
    /\ outcome \in CallerOutcomes(iVariant)
    /\ iSerial' = iSerial + 1
    /\ IF outcome = "raise"
          THEN Returned(t, Raised, TRUE, iNow[t])
          ELSE /\ iResp' = [iResp EXCEPT ![t] =
                      [code |-> IF outcome = "ok" THEN 0 ELSE 1, serial |-> iSerial + 1]]
               /\ iPc' = [iPc EXCEPT ![t] = "called"]
               /\ UNCHANGED <<iKey, iNow, iCalls>>
    /\ UNCHANGED <<clock, iVariant, iThreads, iCache>>

\* _run_idempotent after caller(): store a success, return
IdemStore(t) ==
    /\ iPc[t] = "called"
    /\ iCache' = IF ShouldStore(iVariant, iResp[t])
                    THEN CachePut(iCache, iKey[t], iNow[t], iResp[t])
                    ELSE iCache
    /\ Returned(t, iResp[t], TRUE, iNow[t])
    /\ UNCHANGED <<clock, iVariant, iThreads, iSerial>>

NextIdem ==
    \/ Tick
    \/ \E t \in AllThreads, op \in IdemOps, parts \in IdemPayloads : IdemBuildKey(t, op, parts)
    \/ \E t \in AllThreads : IdemLookup(t)
    \/ \E t \in AllThreads, o \in {"ok", "fail", "raise"} : IdemInvoke(t, o)
    \/ \E t \in AllThreads : IdemStore(t)

(***************************************************************************)
(* Parallel batch (netbox/client.py)                                       *)
(***************************************************************************)
\* the longest input list
MaxItems == 3

\* the largest max_workers a caller passes
MaxWorkersArg == 3

\* what dedupe_key_getter(item) gives: a key, or "ERR" when it raises
ItemKeys == {"k1", "k2", "k3", "ERR"}

ItemLists == UNION {[1..n -> ItemKeys] : n \in 0..MaxItems}

\* list indexes are 0-based: item i of the input is bItems[i + 1]
Indexes(items) == 0..(Len(items) - 1)

KeyOf(items, i) == items[i + 1]

\* the dict store d[index] = entry, on a dict kept in insertion order
DictPut(d, entry) ==
    IF \E p \in 1..Len(d) : d[p].index = entry.index
        THEN [p \in 1..Len(d) |-> IF d[p].index = entry.index THEN entry ELSE d[p]]
        ELSE Append(d, entry)

\* fault: no key is ever taken as seen
IsDuplicateNever(key, seen) == FALSE

\* if item_key in seen_keys
IsDuplicate(key, seen) == key \in seen

\* fault: the item whose key getter raised is handed to a worker all the same
KeyErrorSubmitted(acc, i) == [acc EXCEPT !.work = Append(@, i)]

\* except Exception: the failure is recorded at the item's index; continue
KeyErrorRecorded(acc, i) ==
    [acc EXCEPT !.indexed = DictPut(@,
        [index |-> i, key |-> "index", code |-> 1, msg |-> "item key error"])]

\* the first loop of _run_parallel_batch over items[from..]: the keys seen,
\* the work items to submit, and the results recorded without scheduling work
RECURSIVE ScanItems(_, _, _)
ScanItems(items, i, acc) ==
    IF i >= Len(items) THEN acc
    ELSE LET key == KeyOf(items, i) IN
         IF key = "ERR"
            THEN ScanItems(items, i + 1, KeyErrorRecorded(acc, i))
         ELSE IF IsDuplicate(key, acc.seen)
            THEN ScanItems(items, i + 1,
                    [acc EXCEPT !.indexed = DictPut(@,
                        [index |-> i, key |-> key, code |-> 1, msg |-> "duplicate item"])])
         ELSE ScanItems(items, i + 1,
                    [acc EXCEPT !.seen = @ \cup {key}, !.work = Append(@, i)])

\* fault: the guard on max_workers comes after the scan
KeyGetterCallsGuardLate(items, maxWorkers) == Len(items)

\* the scan calls dedupe_key_getter once per item, and is not reached when
\* the guard on max_workers returns
KeyGetterCalls(items, maxWorkers) == IF maxWorkers < 1 THEN 0 ELSE Len(items)

EmptyScan == [seen |-> {}, work |-> <<>>, indexed |-> <<>>]

\* what a worker call can end as: a success, a failed ReturnResponse, an exception
WorkerOutcomes == {"ok", "fail", "raise"}

\* fault: the fallback for a raising worker is built with _ok
ResponseOfOkFallback(outcome) ==
    IF outcome = "ok" THEN [code |-> 0, msg |-> "worker ok"]
    ELSE IF outcome = "fail" THEN [code |-> 1, msg |-> "worker failed"]
    ELSE [code |-> 0, msg |-> "item exception"]

\* response = future.result(), or the fallback _fail("... item exception")
ResponseOf(outcome) ==
    IF outcome = "ok" THEN [code |-> 0, msg |-> "worker ok"]
    ELSE IF outcome = "fail" THEN [code |-> 1, msg |-> "worker failed"]
    ELSE [code |-> 1, msg |-> "item exception"]

RECURSIVE SortedIndexes(_)
SortedIndexes(S) ==
    IF S = {} THEN <<>>
    ELSE LET m == CHOOSE x \in S : \A y \in S : x <= y
         IN  <<m>> \o SortedIndexes(S \ {m})

EntryAt(d, i) == d[CHOOSE p \in 1..Len(d) : d[p].index = i]

\* fault: the results are listed in the order the dict received them
OrderedResultsAsInserted(d) == d

\* ordered_results = [indexed_results[index] for index in sorted(indexed_results)]
OrderedResults(d) ==
    LET order == SortedIndexes({d[p].index : p \in 1..Len(d)})
    IN  [p \in 1..Len(order) |-> EntryAt(d, order[p])]

\* fault: the batch reports success whatever its items did
BatchCodeAlwaysOk(failed) == 0

\* if failed_count > 0: return self._fail(...) else self._ok(...)
BatchCode(failed) == IF failed > 0 THEN 1 ELSE 0

\* fault: total counts the distinct items
BatchSummaryDistinctTotal(items, d) ==
    LET ordered == OrderedResults(d)
        success == Cardinality({p \in 1..Len(ordered) : ordered[p].code = 0})
        failed == Len(ordered) - success
    IN  [code |-> BatchCode(failed),
         msg |-> IF failed > 0 THEN "completed with failures" ELSE "completed",
         total |-> Cardinality({items[p] : p \in 1..Len(items)}),
         success |-> success,
         failed |-> failed,
         results |-> ordered]

\* the summary and the ReturnResponse built from indexed_results
BatchSummary(items, d) ==
    LET ordered == OrderedResults(d)
        success == Cardinality({p \in 1..Len(ordered) : ordered[p].code = 0})
        failed == Len(ordered) - success
    IN  [code |-> BatchCode(failed),
         msg |-> IF failed > 0 THEN "completed with failures" ELSE "completed",
         total |-> Len(items),
         success |-> success,
         failed |-> failed,
         results |-> ordered]

NoReturn == [code |-> 0 - 1, msg |-> "none"]

\* fault: the pool is as large as the work list
WorkerCountUnbounded(maxWorkers, enqueued) == enqueued

\* fault: the pool has one thread
WorkerCountSerial(maxWorkers, enqueued) == Min(1, enqueued)

\* worker_count = min(max_workers, len(indexed_work_items))
WorkerCount(maxWorkers, enqueued) == Min(maxWorkers, enqueued)

\* fault: the summary is built without waiting for the futures
AllFuturesYieldedEarly(queue, running, finished) == TRUE

\* the as_completed loop has yielded every submitted future, and the with
\* block's exit (shutdown(wait=True)) has nothing left to wait for
AllFuturesYielded(queue, running, finished) ==
    queue = <<>> /\ running = {} /\ finished = {}

InitBatch ==
    /\ bPc = "idle"
    /\ bItems = <<>>
    /\ bMaxWorkers = 0
    /\ bWorkerCount = 0
    /\ bQueue = <<>>
    /\ bRunning = {}
    /\ bFinished = {}
    /\ bOutcome = <<>>
    /\ bInvoked = <<>>
    /\ bIndexed = <<>>
    /\ bReturn = NoReturn
    /\ bPeak = 0
    /\ bKeyCalls = 0

\* _run_parallel_batch up to the pool: the guard, the scan, the submits
BatchBegin(items, maxWorkers) ==
    LET scan == ScanItems(items, 0, EmptyScan) IN
    /\ bPc = "idle"
    /\ bItems' = items
    /\ bMaxWorkers' = maxWorkers
    /\ bOutcome' = [p \in 1..Len(items) |-> "none"]
    /\ bInvoked' = [p \in 1..Len(items) |-> 0]
    /\ IF maxWorkers < 1
          THEN /\ bPc' = "done"
               /\ bReturn' = [code |-> 1, msg |-> "max_workers must be >= 1"]
               /\ UNCHANGED <<bWorkerCount, bQueue, bIndexed>>
          ELSE /\ bPc' = "pool"
               /\ bWorkerCount' = WorkerCount(maxWorkers, Len(scan.work))
               /\ bQueue' = scan.work
               /\ bIndexed' = scan.indexed
               /\ UNCHANGED bReturn
    /\ bKeyCalls' = KeyGetterCalls(items, maxWorkers)
    /\ UNCHANGED <<bRunning, bFinished, bPeak>>

\* a free pool thread takes the oldest submitted item and calls worker(item)
WorkerStart ==
    /\ bPc = "pool"
    /\ bQueue # <<>>
    /\ Cardinality(bRunning) < bWorkerCount
    /\ LET i == Head(bQueue) IN
         /\ bRunning' = bRunning \cup {i}
         /\ bInvoked' = [bInvoked EXCEPT ![i + 1] = @ + 1]
    /\ bQueue' = Tail(bQueue)
    /\ bPeak' = Max(bPeak, Cardinality(bRunning) + 1)
    /\ UNCHANGED <<bPc, bItems, bMaxWorkers, bWorkerCount, bFinished, bOutcome,
                   bIndexed, bReturn, bKeyCalls>>

\* worker(item) returns or raises; its future is done
WorkerFinish(i, outcome) ==
    /\ bPc = "pool"
    /\ i \in bRunning
    /\ bRunning' = bRunning \ {i}
    /\ bFinished' = bFinished \cup {i}
    /\ bOutcome' = [bOutcome EXCEPT ![i + 1] = outcome]
    /\ UNCHANGED <<bPc, bItems, bMaxWorkers, bWorkerCount, bQueue, bInvoked,
                   bIndexed, bReturn, bPeak, bKeyCalls>>

\* as_completed yields a done future; its result goes into indexed_results
BatchCollect(i) ==
    /\ bPc = "pool"
    /\ i \in bFinished
    /\ bFinished' = bFinished \ {i}
    /\ LET response == ResponseOf(bOutcome[i + 1]) IN
         bIndexed' = DictPut(bIndexed,
             [index |-> i, key |-> KeyOf(bItems, i), code |-> response.code,
              msg |-> response.msg])
    /\ UNCHANGED <<bPc, bItems, bMaxWorkers, bWorkerCount, bQueue, bRunning, bOutcome,
                   bInvoked, bReturn, bPeak, bKeyCalls>>

\* every future was yielded and the pool is shut down: summary and return
BatchAssemble ==
    /\ bPc = "pool"
    /\ AllFuturesYielded(bQueue, bRunning, bFinished)
    /\ bReturn' = BatchSummary(bItems, bIndexed)
    /\ bPc' = "done"
    /\ UNCHANGED <<bItems, bMaxWorkers, bWorkerCount, bQueue, bRunning, bFinished,
                   bOutcome, bInvoked, bIndexed, bPeak, bKeyCalls>>

NextBatch ==
    \/ \E items \in ItemLists, w \in 0..MaxWorkersArg : BatchBegin(items, w)
    \/ WorkerStart
    \/ \E i \in Indexes(bItems), o \in WorkerOutcomes : WorkerFinish(i, o)
    \/ \E i \in Indexes(bItems) : BatchCollect(i)
    \/ BatchAssemble

(***************************************************************************)
(* Single-id resolver (netbox/client.py, utils/parse.py)                   *)
(***************************************************************************)
\* the lookups of one behaviour
MaxLookups == 2

\* the largest count a list payload reports
MaxCount == 3

\* Python's None as a filter value, an id or a data field
None == "<None>"

Endpoints == {"/api/dcim/regions/"}

FilterNames == {"name", "slug"}

FilterValues == {"x", None}

\* params: a dict from filter names to values
ParamDicts == [FilterNames -> FilterValues]

\* fault: null values are kept
RemoveDictNoneValueKeepsAll(params) == params

\* Parse.remove_dict_none_value: {k: v for k, v in data.items() if v is not None}
RemoveDictNoneValue(params) ==
    [n \in {m \in DOMAIN params : params[m] # None} |-> params[n]]

\* _build_lookup_cache_key: api_url?json.dumps(params, sort_keys=True); a
\* dict with sorted keys serialises to one string per dict
BuildLookupCacheKey(url, cleaned) == [url |-> url, params |-> cleaned]

\* the items of a results list: a dict with an id, a dict without, not a dict
ResultItems == {"id1", "id2", "noid", "nondict"}

\* results lists: empty, one item of each sort, two items in both orders, a
\* non-dict item before and after a dict
ResultLists ==
    {<<>>, <<"id1">>, <<"noid">>, <<"nondict">>, <<"id1", "id2">>, <<"id2", "id1">>,
     <<"nondict", "id2">>, <<"noid", "id1">>, <<"id1", "nondict">>}

\* the JSON payload of a list query: not a dict at all, or a dict whose count
\* is an int or not, with a results list
Payloads ==
    [kind : {"other"}, hasCount : {FALSE}, count : {0}, results : {<<>>}]
        \cup [kind : {"dict"}, hasCount : {FALSE}, count : {0}, results : ResultLists]
        \cup [kind : {"dict"}, hasCount : {TRUE}, count : 0..MaxCount, results : ResultLists]

RECURSIVE KeepDicts(_)
KeepDicts(items) ==
    IF items = <<>> THEN <<>>
    ELSE IF Head(items) = "nondict" THEN KeepDicts(Tail(items))
    ELSE <<Head(items)>> \o KeepDicts(Tail(items))

\* _extract_results
ExtractResults(payload) ==
    IF payload.kind = "dict" THEN KeepDicts(payload.results) ELSE <<>>

\* _extract_count
ExtractCount(payload, results) ==
    IF payload.kind = "dict" /\ payload.hasCount THEN payload.count ELSE Len(results)

\* item.get("id")
IdOf(item) == IF item = "noid" THEN None ELSE item

\* fault: several matches are not told from one
IsAmbiguousNever(count) == FALSE

\* if count > 1
IsAmbiguous(count) == count > 1

\* fault: a null id is cached as well
ShouldCacheIdAlways(id) == TRUE

\* if resolved_id is not None
ShouldCacheId(id) == id # None

\* _query_single_id after a successful list query: the Response returned, and
\* whether the cache is written
LookupOutcome(payload) ==
    LET results == ExtractResults(payload)
        count == ExtractCount(payload, results)
    IN  IF IsAmbiguous(count)
            THEN [code |-> 1, msg |-> "multiple results", id |-> None,
                  count |-> count, store |-> FALSE]
        ELSE IF count = 0
            THEN [code |-> 0, msg |-> "not found", id |-> None, count |-> 0 - 1,
                  store |-> FALSE]
        ELSE IF results = <<>>
            THEN [code |-> 2, msg |-> "IndexError", id |-> None, count |-> 0 - 1,
                  store |-> FALSE]
        ELSE [code |-> 0, msg |-> "found", id |-> IdOf(results[1]), count |-> 0 - 1,
              store |-> ShouldCacheId(IdOf(results[1]))]

\* what _request_with_retry("GET", ...) hands back
NoPayload == [kind |-> "none", hasCount |-> FALSE, count |-> 0, results |-> <<>>]

LookupResponses ==
    {[code |-> 1, payload |-> NoPayload]} \cup [code : {0}, payload : Payloads]

NoLookupKey == [url |-> "", params |-> <<>>]

NoResponse == [code |-> 0 - 1, payload |-> NoPayload]

InitLookupWith(threads) ==
    /\ lThreads = threads
    /\ lCache = {}
    /\ lPc = [t \in AllThreads |-> "idle"]
    /\ lKey = [t \in AllThreads |-> NoLookupKey]
    /\ lCalls = <<>>
    /\ lLast = [call |-> 0, key |-> NoLookupKey, response |-> NoResponse,
                cacheBefore |-> {}]

LookupsBegun == Len(lCalls) + Cardinality({t \in AllThreads : lPc[t] # "idle"})

\* fault: the cache is never consulted
LookupCacheGetMiss(cache, key) == None

\* self._id_lookup_cache.get(cache_key), under the lock
LookupCacheGet(cache, key) ==
    IF \E e \in cache : e.key = key
        THEN (CHOOSE e \in cache : e.key = key).id
        ELSE None

\* self._id_lookup_cache[cache_key] = resolved_id, under the lock
LookupCachePut(cache, key, id) ==
    {e \in cache : e.key # key} \cup {[key |-> key, id |-> id]}

LookupReturned(t, key, out, queried) ==
    /\ lCalls' = Append(lCalls,
           [thread |-> t, key |-> key, code |-> out.code, msg |-> out.msg,
            id |-> out.id, count |-> out.count, store |-> out.store,
            queried |-> queried])
    /\ lPc' = [lPc EXCEPT ![t] = "idle"]
    /\ lKey' = [lKey EXCEPT ![t] = NoLookupKey]

\* _query_single_id up to the list query: clean the filters, look the key up
LookupBegin(t, url, params) ==
    LET cleaned == RemoveDictNoneValue(params)
        key == BuildLookupCacheKey(url, cleaned)
        cached == LookupCacheGet(lCache, key)
    IN  /\ t \in lThreads
        /\ lPc[t] = "idle"
        /\ LookupsBegun < MaxLookups
        /\ IF DOMAIN cleaned = {}
              THEN LookupReturned(t, NoLookupKey,
                       [code |-> 0, msg |-> "not found", id |-> None, count |-> 0 - 1,
                        store |-> FALSE], FALSE)
           ELSE IF cached # None
              THEN LookupReturned(t, key,
                       [code |-> 0, msg |-> "found", id |-> cached, count |-> 0 - 1,
                        store |-> FALSE], FALSE)
           ELSE /\ lPc' = [lPc EXCEPT ![t] = "querying"]
                /\ lKey' = [lKey EXCEPT ![t] = key]
                /\ UNCHANGED lCalls
        /\ UNCHANGED <<lThreads, lCache, lLast>>

\* the list query returns; _query_single_id to its end
LookupFinish(t, response) ==
    /\ lPc[t] = "querying"
    /\ lLast' = [call |-> Len(lCalls) + 1, key |-> lKey[t], response |-> response,
                 cacheBefore |-> lCache]
    /\ IF response.code # 0
          THEN /\ LookupReturned(t, lKey[t],
                      [code |-> 1, msg |-> "request failed", id |-> None,
                       count |-> 0 - 1, store |-> FALSE], TRUE)
               /\ UNCHANGED lCache
          ELSE LET out == LookupOutcome(response.payload) IN
               /\ LookupReturned(t, lKey[t], out, TRUE)
               /\ lCache' = IF out.store
                               THEN LookupCachePut(lCache, lKey[t], out.id)
                               ELSE lCache
    /\ UNCHANGED lThreads

NextLookup ==
    \/ \E t \in AllThreads, url \in Endpoints, params \in ParamDicts :
          LookupBegin(t, url, params)
    \/ \E t \in AllThreads, r \in LookupResponses : LookupFinish(t, r)

(***************************************************************************)
(* Upsert (netbox/client.py)                                               *)
(***************************************************************************)
\* the thread that calls add_or_update_region
UpsertThread == 1

\* bool(resource_id): None and 0 are false
Truthy(id) == id # None

\* fault: the resolved id is ignored and the resource is created again
UpsertMethodAlwaysPost(id) == "POST"

\* method = "PUT" if resource_id else "POST"
UpsertMethod(id) == IF Truthy(id) THEN "PUT" ELSE "POST"

\* target_api = f"{api_url}{resource_id}/" if resource_id else api_url
UpsertTarget(url, id) ==
    IF Truthy(id) THEN [url |-> url, id |-> id] ELSE [url |-> url, id |-> None]

\* how the write's _request_with_retry ends: response.code
WriteCodes == {0, 1}

InitUpsert ==
    /\ uPc = "idle"
    /\ uCalls = <<>>

\* add_or_update_region(name) up to the list query of get_region_id, which
\* is _query_single_id("/api/dcim/regions/", {"name": name}, "region")
UpsertBegin(url, name) ==
    /\ uPc = "idle"
    /\ LookupBegin(UpsertThread, url, [n \in {"name"} |-> name])
    /\ uPc' = "resolving"
    /\ UNCHANGED uCalls

\* the list query of the upsert's lookup returns
UpsertLookupFinish(response) ==
    /\ uPc = "resolving"
    /\ LookupFinish(UpsertThread, response)
    /\ UNCHANGED upsertVars

\* add_or_update_region after get_region_id: return a failed lookup as it
\* is, else _upsert_resource, whose one _request_with_retry ends with
\* writeCode.  An exception of the lookup leaves add_or_update_region too.
UpsertDecide(url, writeCode) ==
    /\ uPc = "resolving"
    /\ lPc[UpsertThread] = "idle"
    /\ LET h == Last(lCalls) IN
       uCalls' = Append(uCalls,
           IF h.code # 0
               THEN [lookup |-> Len(lCalls), writes |-> <<>>, code |-> h.code,
                     msg |-> h.msg]
               ELSE [lookup |-> Len(lCalls),
                     writes |-> <<[method |-> UpsertMethod(h.id),
                                   target |-> UpsertTarget(url, h.id)]>>,
                     code |-> writeCode,
                     msg |-> IF Truthy(h.id) THEN "updated" ELSE "created"])
    /\ uPc' = "idle"
    /\ UNCHANGED lookupVars

NextUpsert ==
    \/ \E url \in Endpoints, name \in FilterValues : UpsertBegin(url, name)
    \/ \E r \in LookupResponses : UpsertLookupFinish(r)
    \/ \E url \in Endpoints, w \in WriteCodes : UpsertDecide(url, w)

(***************************************************************************)
(* Error classifier applied to one failure (cloud/*/errors.py)             *)
(***************************************************************************)
\* mapped = map_tea_exception(action, exc) / map_volc_exception(action, exc)
InitClassify ==
    /\ kErr = [provider |-> "none"]
    /\ kKind = "none"

Classify(p, e) ==
    /\ kKind = "none"
    /\ kErr' = [provider |-> p, err |-> e]
    /\ kKind' = MapException(p, e)

NextClassify == \E p \in Providers : \E e \in RawErrors(p) : Classify(p, e)

(***************************************************************************)
(* Key-step logging (netbox/client.py, cloud/aliyun/client.py)             *)
(*                                                                         *)
(* A string is the set of text atoms it contains, so that a line contains  *)
(* a secret exactly when one of the values formatted into it does.         *)
(***************************************************************************)
\* the log lines of one behaviour
MaxLogLines == 2

\* API token, access-key secret, password
Secrets == {"secretA", "secretB"}

\* what a step has in scope when it logs: the task id (uuid4().hex[:8]), the
\* target (an API path, "aliyun:<action>", a batch label), the result tag,
\* the duration, the request headers and the text of a caught exception,
\* which can quote the request
LogContexts(secret) ==
    [task_id : {{"1f3a9c0e"}},
     target : {{"/api/dcim/regions/"}, {"aliyun:", "ecs_list"},
               {"bulk_update_device_fields"}},
     result : {{"ok"}, {"retry"}, {"fail"}, {"ecs_list", "_timeout_retry"},
               {"partial_fail"}},
     duration_ms : {{"0"}, {"12"}},
     headers : {{"Token ", secret}},
     err : {{"timed out"}, {"url", secret}}]

\* fault: the text of the exception is logged as well
LogStepWithError(ctx) ==
    {"task_id=", " target=", " result=", " duration_ms="}
        \cup ctx.task_id \cup ctx.target \cup ctx.result \cup ctx.duration_ms \cup ctx.err

\* _log_step: "task_id=%s target=%s result=%s duration_ms=%s"
LogStep(ctx) ==
    {"task_id=", " target=", " result=", " duration_ms="}
        \cup ctx.task_id \cup ctx.target \cup ctx.result \cup ctx.duration_ms

InitLog ==
    /\ gSecret = "none"
    /\ gLines = {}

\* the client is built with its secret
LogConfigure(secret) ==
    /\ gSecret = "none"
    /\ gSecret' = secret
    /\ UNCHANGED gLines

\* a retry, lookup or batch step logs
EmitLog(ctx) ==
    /\ gSecret # "none"
    /\ Cardinality(gLines) < MaxLogLines
    /\ gLines' = gLines \cup {LogStep(ctx)}
    /\ UNCHANGED gSecret

NextLog ==
    \/ \E secret \in Secrets : LogConfigure(secret)
    \/ \E ctx \in LogContexts(gSecret) : EmitLog(ctx)

(***************************************************************************)
(* Feishu token provider and request loop (feishu/client.py)               *)
(***************************************************************************)
\* the clock of one behaviour
MaxTokenClock == 3

\* the tokens issued in one behaviour
MaxTokens == 3

\* ClientOptions.retry_max_attempts
RetryMaxAttempts == 3

\* refresh_buffer_seconds
RefreshBuffers == {0, 1}

\* the lifetime of a fetched token
ExpireSeconds == {1, 3}

\* _memory_token = None, _memory_expires_at = 0; an absent or unreadable file
EmptyCache == [token |-> 0, expires_at |-> 0]

\* fault: a token is kept only while twice the buffer remains
IsValidTwiceBuffer(token, expires_at, now, buffer) ==
    /\ token # 0
    /\ expires_at # 0
    /\ expires_at - now > 2 * buffer + 1

\* _is_valid
IsValid(token, expires_at, now, buffer) ==
    /\ token # 0
    /\ expires_at # 0
    /\ expires_at - now > buffer

\* _read_cache_file
ReadCacheFile(enabled, file) == IF ~enabled THEN EmptyCache ELSE file

\* what the fetcher can answer at time now when n tokens were issued: a
\* failure, a payload without a token, a token with its expiry
FetcherResponses(now, n) ==
    {[code |-> 1, token |-> 0, expires_at |-> 0],
     [code |-> 0, token |-> 0, expires_at |-> 0]}
        \cup {[code |-> 0, token |-> n + 1, expires_at |-> now + s] : s \in ExpireSeconds}

\* refresh: whether the fetched token is kept
RefreshStores(resp) == resp.code = 0 /\ resp.token # 0 /\ resp.expires_at # 0

\* refresh: what it returns
RefreshResponse(resp) ==
    IF resp.code # 0 THEN resp
    ELSE IF ~RefreshStores(resp) THEN [code |-> 4001, token |-> 0, expires_at |-> 0]
    ELSE resp

\* refresh: the fetcher is called and a good token replaces the cached one
DoRefresh(resp) ==
    /\ tIssued < MaxTokens
    /\ IF RefreshStores(resp)
       THEN /\ tMemory' = [token |-> resp.token, expires_at |-> resp.expires_at]
            /\ tFile' = IF tFileEnabled THEN tMemory' ELSE tFile
            /\ tIssued' = tIssued + 1
       ELSE UNCHANGED <<tMemory, tFile, tIssued>>

\* get_token: memory first, then the file, then the fetcher
DoGetToken(resp) ==
    LET cached == ReadCacheFile(tFileEnabled, tFile)
        seen == [op |-> "get_token", now |-> tNow, memory |-> tMemory, file |-> cached]
    IN  IF IsValid(tMemory.token, tMemory.expires_at, tNow, tBuffer)
        THEN /\ tLast' = seen @@ [fetched |-> FALSE, code |-> 0, token |-> tMemory.token]
             /\ UNCHANGED <<tMemory, tFile, tIssued>>
        ELSE IF tFileEnabled /\ IsValid(cached.token, cached.expires_at, tNow, tBuffer)
        THEN /\ tMemory' = cached
             /\ tLast' = seen @@ [fetched |-> FALSE, code |-> 0, token |-> cached.token]
             /\ UNCHANGED <<tFile, tIssued>>
        ELSE /\ DoRefresh(resp)
             /\ tLast' = seen @@ [fetched |-> TRUE, code |-> RefreshResponse(resp).code,
                                  token |-> RefreshResponse(resp).token]

requestVars ==
    <<qPc, qUseAuth, qAttempt, qRefreshedOnce, qForced, qInvalid, qResult,
      qToken, qRefreshed, qResent>>

InitFeishu ==
    /\ tPc = "new"
    /\ tNow = 0
    /\ tBuffer = 0
    /\ tFileEnabled = FALSE
    /\ tMemory = EmptyCache
    /\ tFile = EmptyCache
    /\ tIssued = 0
    /\ tLast = [op |-> "none"]
    /\ qPc = "idle"
    /\ qUseAuth = FALSE
    /\ qAttempt = 0
    /\ qRefreshedOnce = FALSE
    /\ qForced = 0
    /\ qInvalid = 0
    /\ qResult = "none"
    /\ qToken = 0
    /\ qRefreshed = 0
    /\ qResent = 0

\* TokenProvider.__init__; an earlier process may have left a cache file
TokenProviderNew(buffer, enabled, lifetime) ==
    /\ tPc = "new"
    /\ tPc' = "ready"
    /\ tBuffer' = buffer
    /\ tFileEnabled' = enabled
    /\ tFile' = IF lifetime = 0 THEN EmptyCache ELSE [token |-> 1, expires_at |-> lifetime]
    /\ tIssued' = IF lifetime = 0 THEN 0 ELSE 1
    /\ UNCHANGED <<tNow, tMemory, tLast, requestVars>>

\* a second passes
TokenTick ==
    /\ tPc = "ready"
    /\ tNow < MaxTokenClock
    /\ tNow' = tNow + 1
    /\ UNCHANGED <<tPc, tBuffer, tFileEnabled, tMemory, tFile, tIssued, tLast, requestVars>>

\* TokenProvider.get_token, called before the request
GetToken(resp) ==
    /\ tPc = "ready"
    /\ qPc = "idle"
    /\ DoGetToken(resp)
    /\ UNCHANGED <<tPc, tNow, tBuffer, tFileEnabled, requestVars>>

\* TokenProvider.refresh, called before the request
Refresh(resp) ==
    /\ tPc = "ready"
    /\ qPc = "idle"
    /\ DoRefresh(resp)
    /\ UNCHANGED <<tPc, tNow, tBuffer, tFileEnabled, tLast, requestVars>>

\* what the API can answer to one attempt: an exception of the transport, or
\* a response that names an invalid token or not, is a success or not, and
\* is retryable or not
ApiResponses ==
    {r \in [exc : BOOLEAN, invalid : BOOLEAN, success : BOOLEAN, retryable : BOOLEAN] :
        /\ r.exc => ~r.invalid /\ ~r.success /\ ~r.retryable
        /\ r.success => ~r.retryable}

\* fault: the flag is left as it was
MarkRefreshedKeeps(flag) == flag

\* refreshed_once = True
MarkRefreshed(flag) == TRUE

\* Client.request up to the loop: the token is obtained first
RequestBegin(useAuth, resp) ==
    /\ tPc = "ready"
    /\ qPc = "idle"
    /\ qUseAuth' = useAuth
    /\ IF useAuth
       THEN /\ DoGetToken(resp)
            /\ IF tLast'.code # 0
               THEN qPc' = "done" /\ qResult' = "token_fail" /\ UNCHANGED <<qAttempt, qToken>>
               ELSE /\ qPc' = "loop" /\ qAttempt' = 1 /\ UNCHANGED qResult
                    /\ qToken' = tLast'.token
       ELSE /\ qPc' = "loop" /\ qAttempt' = 1
            /\ UNCHANGED <<tMemory, tFile, tIssued, tLast, qResult, qToken>>
    /\ UNCHANGED <<tPc, tNow, tBuffer, tFileEnabled, qRefreshedOnce, qForced, qInvalid,
                   qRefreshed, qResent>>

\* one pass of the loop of Client.request
RequestAttempt(r, resp) ==
    /\ qPc = "loop"
    /\ qInvalid' = IF r.invalid THEN Min(qInvalid + 1, 2) ELSE qInvalid
    /\ qResent' = IF qRefreshed # 0 /\ qResent = 0 THEN qToken ELSE qResent
    /\ IF r.exc
       THEN /\ IF qAttempt < RetryMaxAttempts
               THEN qAttempt' = qAttempt + 1 /\ UNCHANGED <<qPc, qResult>>
               ELSE qPc' = "done" /\ qResult' = "exception" /\ UNCHANGED qAttempt
            /\ UNCHANGED <<tMemory, tFile, tIssued, qRefreshedOnce, qForced, qToken,
                           qRefreshed>>
       ELSE IF qUseAuth /\ r.invalid /\ ~qRefreshedOnce
       THEN /\ DoRefresh(resp)
            /\ qForced' = qForced + 1
            /\ qRefreshedOnce' = MarkRefreshed(qRefreshedOnce)
            /\ IF RefreshResponse(resp).code # 0
               THEN /\ qPc' = "done" /\ qResult' = "refresh_fail"
                    /\ UNCHANGED <<qAttempt, qToken, qRefreshed>>
               ELSE /\ qToken' = RefreshResponse(resp).token
                    /\ qRefreshed' = RefreshResponse(resp).token
                    /\ IF qAttempt < RetryMaxAttempts
                       THEN qAttempt' = qAttempt + 1 /\ UNCHANGED <<qPc, qResult>>
                       ELSE qPc' = "done" /\ qResult' = "unknown request failure"
                            /\ UNCHANGED qAttempt
       ELSE /\ IF r.success
               THEN qPc' = "done" /\ qResult' = "ok" /\ UNCHANGED qAttempt
               ELSE IF r.retryable /\ qAttempt < RetryMaxAttempts
               THEN qAttempt' = qAttempt + 1 /\ UNCHANGED <<qPc, qResult>>
               ELSE qPc' = "done" /\ qResult' = "fail" /\ UNCHANGED qAttempt
            /\ UNCHANGED <<tMemory, tFile, tIssued, qRefreshedOnce, qForced, qToken,
                           qRefreshed>>
    /\ UNCHANGED <<tPc, tNow, tBuffer, tFileEnabled, tLast, qUseAuth>>

NextFeishu ==
    \/ \E buffer \in RefreshBuffers : \E enabled \in BOOLEAN :
         \E lifetime \in {0} \cup ExpireSeconds : TokenProviderNew(buffer, enabled, lifetime)
    \/ TokenTick
    \/ \E resp \in FetcherResponses(tNow, tIssued) : GetToken(resp)
    \/ \E resp \in FetcherResponses(tNow, tIssued) : Refresh(resp)
    \/ \E useAuth \in BOOLEAN : \E resp \in FetcherResponses(tNow, tIssued) :
         RequestBegin(useAuth, resp)
    \/ \E r \in ApiResponses : \E resp \in FetcherResponses(tNow, tIssued) :
         RequestAttempt(r, resp)

(***************************************************************************)
(* Feishu token provider under concurrency (feishu/client.py)              *)
(***************************************************************************)
\* fault: get_token runs without taking the lock
LockFreeAlways(lock) == TRUE

\* with self._lock: the lock is taken when no other thread holds it
LockFree(lock) == lock = 0

InitTokenConc ==
    /\ mPc = [t \in AllThreads |-> "idle"]
    /\ mLock = 0
    /\ mGot = [t \in AllThreads |-> 0]
    /\ mFetched = <<>>
    /\ mOverlap = FALSE
    /\ mCold = TRUE

\* thread t calls get_token
ConcCall(t) ==
    /\ tPc = "ready"
    /\ mPc[t] = "idle"
    /\ mPc' = [mPc EXCEPT ![t] = "waiting"]
    /\ mOverlap' = (mOverlap \/ \E u \in AllThreads \ {t} :
                                   mPc[u] \in {"waiting", "locked", "refreshing"})
    /\ mCold' = (/\ mCold
                 /\ ~IsValid(tMemory.token, tMemory.expires_at, tNow, tBuffer)
                 /\ LET cached == ReadCacheFile(tFileEnabled, tFile) IN
                        ~IsValid(cached.token, cached.expires_at, tNow, tBuffer))
    /\ UNCHANGED <<mLock, mGot, mFetched, feishuVars>>

\* get_token: with self._lock
ConcAcquire(t) ==
    /\ mPc[t] = "waiting"
    /\ LockFree(mLock)
    /\ mLock' = t
    /\ mPc' = [mPc EXCEPT ![t] = "locked"]
    /\ UNCHANGED <<mGot, mFetched, mOverlap, mCold, feishuVars>>

\* get_token under the lock: memory, then file; a hit returns and releases
ConcCheck(t) ==
    LET cached == ReadCacheFile(tFileEnabled, tFile) IN
    /\ mPc[t] = "locked"
    /\ IF IsValid(tMemory.token, tMemory.expires_at, tNow, tBuffer)
       THEN /\ mGot' = [mGot EXCEPT ![t] = tMemory.token]
            /\ mPc' = [mPc EXCEPT ![t] = "done"]
            /\ mLock' = IF mLock = t THEN 0 ELSE mLock
            /\ UNCHANGED tMemory
       ELSE IF tFileEnabled /\ IsValid(cached.token, cached.expires_at, tNow, tBuffer)
       THEN /\ tMemory' = cached
            /\ mGot' = [mGot EXCEPT ![t] = cached.token]
            /\ mPc' = [mPc EXCEPT ![t] = "done"]
            /\ mLock' = IF mLock = t THEN 0 ELSE mLock
       ELSE /\ mPc' = [mPc EXCEPT ![t] = "refreshing"]
            /\ UNCHANGED <<mGot, mLock, tMemory>>
    /\ UNCHANGED <<mFetched, mOverlap, mCold, tPc, tNow, tBuffer, tFileEnabled, tFile, tIssued,
                   tLast, requestVars>>

\* get_token under the lock: refresh calls the fetcher; return and release
ConcRefresh(t, resp) ==
    /\ mPc[t] = "refreshing"
    /\ DoRefresh(resp)
    /\ mFetched' = Append(mFetched, resp)
    /\ mGot' = [mGot EXCEPT ![t] = RefreshResponse(resp).token]
    /\ mPc' = [mPc EXCEPT ![t] = "done"]
    /\ mLock' = IF mLock = t THEN 0 ELSE mLock
    /\ UNCHANGED <<mOverlap, mCold, tPc, tNow, tBuffer, tFileEnabled, tLast, requestVars>>

NextTokenConc ==
    \/ /\ \E buffer \in RefreshBuffers : \E enabled \in BOOLEAN :
            \E lifetime \in {0} \cup ExpireSeconds :
                TokenProviderNew(buffer, enabled, lifetime)
       /\ UNCHANGED tokenConcVars
    \/ TokenTick /\ UNCHANGED tokenConcVars
    \/ \E t \in AllThreads : ConcCall(t)
    \/ \E t \in AllThreads : ConcAcquire(t)
    \/ \E t \in AllThreads : ConcCheck(t)
    \/ \E t \in AllThreads : \E resp \in FetcherResponses(tNow, tIssued) : ConcRefresh(t, resp)

(***************************************************************************)
(* Idempotency keys of two write requests (dida365.py)                     *)
(***************************************************************************)
KeySlots == {1, 2}

KeyOps == {"task_create", "task_update"}

\* the parts of a task write, each a string: project id, title, content
KeyPayloads ==
    {<< <<"p">>, <<"x">>, <<"z">> >>,
     << <<"p">>, <<"x", "|", "y">>, <<"z">> >>,
     << <<"p">>, <<"x">>, <<"y", "|", "z">> >>,
     << <<"p">>, <<"x">>, <<"y">> >>}

InitKey ==
    /\ jReq = [i \in KeySlots |-> [op |-> ""]]
    /\ jKey = [i \in KeySlots |-> [op |-> ""]]

\* a write method builds the key of its request at time t
KeyBuild(i, op, t, parts) ==
    /\ jReq[i].op = ""
    /\ jReq' = [jReq EXCEPT ![i] = [op |-> op, t |-> t, parts |-> parts]]
    /\ jKey' = [jKey EXCEPT ![i] = BuildIdempotencyKey(op, t, parts)]

NextKey ==
    \E i \in KeySlots, op \in KeyOps, t \in 0..MaxClock, parts \in KeyPayloads :
        KeyBuild(i, op, t, parts)

(***************************************************************************)
(* Volc region override (cloud/volc/client.py)                             *)
(***************************************************************************)
\* use_region blocks open at once
MaxDepth == 2

Regions == {"cn-beijing", "cn-shanghai", "cn-guangzhou"}

\* how a block ends
BlockExits == {"return", "raise"}

\* region or self.cfg.region
EffectiveRegion(region, default) == IF region = None THEN default ELSE region

\* fault: the region is restored after the yield, without finally
RestoredRegionOnReturnOnly(how, previous, current) ==
    IF how = "return" THEN previous ELSE current

\* try: yield finally: self.set_region(previous_region)
RestoredRegion(how, previous, current) == previous

InitRegion ==
    /\ rPc = "new"
    /\ rDefault = None
    /\ rRegion = None
    /\ rStack = <<>>
    /\ rLast = [op |-> "none"]

\* VolcClient.__init__: conf.region = cfg.region
VolcClientNew(region) ==
    /\ rPc = "new"
    /\ rPc' = "ready"
    /\ rDefault' = region
    /\ rRegion' = region
    /\ UNCHANGED <<rStack, rLast>>

\* set_region, called outside any block
SetRegion(region) ==
    /\ rPc = "ready"
    /\ rStack = <<>>
    /\ rRegion' = region
    /\ rLast' = [op |-> "set_region"]
    /\ UNCHANGED <<rPc, rDefault, rStack>>

\* use_region up to the yield
UseRegionEnter(region) ==
    /\ rPc = "ready"
    /\ Len(rStack) < MaxDepth
    /\ rStack' = Append(rStack, [previous_region |-> rRegion, region |-> region])
    /\ rRegion' = EffectiveRegion(region, rDefault)
    /\ rLast' = [op |-> "enter"]
    /\ UNCHANGED <<rPc, rDefault>>

\* use_region after the yield: the block returned or raised
UseRegionExit(how) ==
    /\ rStack # <<>>
    /\ rRegion' = RestoredRegion(how, Last(rStack).previous_region, rRegion)
    /\ rStack' = Front(rStack)
    /\ rLast' = [op |-> "exit", how |-> how,
                 previous_region |-> Last(rStack).previous_region,
                 region |-> Last(rStack).region]
    /\ UNCHANGED <<rPc, rDefault>>

NextRegion ==
    \/ \E region \in Regions : VolcClientNew(region)
    \/ \E region \in Regions : SetRegion(region)
    \/ \E region \in Regions \cup {None} : UseRegionEnter(region)
    \/ \E how \in BlockExits : UseRegionExit(how)

(***************************************************************************)
(* Specifications                                                          *)
(***************************************************************************)
vars ==
    <<callVars, httpVars, idemVars, batchVars, lookupVars, upsertVars, classifyVars, logVars, feishuVars, regionVars, tokenConcVars, keyVars>>

InitIdle ==
    /\ InitCall /\ InitHttp /\ InitIdemWith({}, {"response"}) /\ InitBatch
    /\ InitLookupWith({}) /\ InitUpsert
    /\ InitClassify
    /\ InitLog
    /\ InitFeishu
    /\ InitKey
    /\ InitTokenConc
    /\ InitRegion

Init == InitIdle

\* The retry executors.  The two executors belong to different client objects;
\* a behaviour exercises one of them.
NextRetry ==
    \/ /\ hPc = "new" /\ NextCall
       /\ UNCHANGED <<httpVars, idemVars, batchVars, lookupVars, upsertVars,
                      classifyVars, logVars, feishuVars, regionVars, tokenConcVars, keyVars>>
    \/ /\ cPc = "idle" /\ NextHttp
       /\ UNCHANGED <<callVars, idemVars, batchVars, lookupVars, upsertVars,
                      classifyVars, logVars, feishuVars, regionVars, tokenConcVars, keyVars>>

SpecRetry == Init /\ [][NextRetry]_vars

\* The idempotency cache used by one thread, and by two.
InitIdemSeq ==
    /\ InitCall /\ InitHttp /\ InitBatch /\ InitLookupWith({}) /\ InitUpsert
    /\ InitClassify
    /\ InitLog
    /\ InitFeishu
    /\ InitKey
    /\ InitTokenConc
    /\ InitRegion
    /\ InitIdemWith({1}, {"response", "raw"})

InitIdemConc ==
    /\ InitCall /\ InitHttp /\ InitBatch /\ InitLookupWith({}) /\ InitUpsert
    /\ InitClassify
    /\ InitLog
    /\ InitFeishu
    /\ InitKey
    /\ InitTokenConc
    /\ InitRegion
    /\ InitIdemWith(AllThreads, {"response", "raw"})

NextIdemOnly ==
    NextIdem
        /\ UNCHANGED <<callVars, httpVars, batchVars, lookupVars, upsertVars, classifyVars, logVars, feishuVars, regionVars, tokenConcVars, keyVars>>

SpecIdem == InitIdemSeq /\ [][NextIdemOnly]_vars

SpecIdemConc == InitIdemConc /\ [][NextIdemOnly]_vars

\* One batch call.
NextBatchOnly ==
    NextBatch
        /\ UNCHANGED <<callVars, httpVars, idemVars, lookupVars, upsertVars, classifyVars, logVars, feishuVars, regionVars, tokenConcVars, keyVars>>

SpecBatch == InitIdle /\ [][NextBatchOnly]_vars

\* The single-id resolver used by one thread.
InitLookupSeq ==
    /\ InitCall /\ InitHttp /\ InitBatch /\ InitIdemWith({}, {"response"}) /\ InitUpsert
    /\ InitClassify
    /\ InitLog
    /\ InitFeishu
    /\ InitKey
    /\ InitTokenConc
    /\ InitRegion
    /\ InitLookupWith({1})

NextLookupOnly ==
    NextLookup
        /\ UNCHANGED <<callVars, httpVars, idemVars, batchVars, upsertVars, classifyVars, logVars, feishuVars, regionVars, tokenConcVars, keyVars>>

SpecLookup == InitLookupSeq /\ [][NextLookupOnly]_vars

\* The single-id resolver used by two batch workers of one client.
InitLookupConc ==
    /\ InitCall /\ InitHttp /\ InitBatch /\ InitIdemWith({}, {"response"}) /\ InitUpsert
    /\ InitClassify
    /\ InitLog
    /\ InitFeishu
    /\ InitKey
    /\ InitTokenConc
    /\ InitRegion
    /\ InitLookupWith(AllThreads)

SpecLookupConc == InitLookupConc /\ [][NextLookupOnly]_vars

\* Upserts of one thread, each with its lookup.
NextUpsertOnly ==
    NextUpsert /\ UNCHANGED <<callVars, httpVars, idemVars, batchVars, classifyVars, logVars, feishuVars, regionVars, tokenConcVars, keyVars>>

SpecUpsert == InitLookupSeq /\ [][NextUpsertOnly]_vars

\* The log lines of one client.
SpecLog ==
    InitIdle /\ [][NextLog /\ UNCHANGED <<callVars, httpVars, idemVars, batchVars,
                                          lookupVars, upsertVars, classifyVars, feishuVars, regionVars, tokenConcVars, keyVars>>]_vars

\* The Feishu token provider and one request of its client.
SpecFeishu ==
    InitIdle /\ [][NextFeishu /\ UNCHANGED <<callVars, httpVars, idemVars, batchVars,
                                             lookupVars, upsertVars, classifyVars,
                                             logVars, regionVars, tokenConcVars, keyVars>>]_vars

\* The region of one Volc client.
SpecRegion ==
    InitIdle /\ [][NextRegion /\ UNCHANGED <<callVars, httpVars, idemVars, batchVars,
                                             lookupVars, upsertVars, classifyVars,
                                             logVars, feishuVars, tokenConcVars, keyVars>>]_vars

\* The Feishu token provider called by two threads.
SpecTokenConc ==
    InitIdle /\ [][NextTokenConc /\ UNCHANGED <<callVars, httpVars, idemVars, batchVars,
                                                lookupVars, upsertVars, classifyVars,
                                                logVars, regionVars, keyVars>>]_vars

\* The idempotency keys of two write requests.
SpecKey ==
    InitIdle /\ [][NextKey /\ UNCHANGED <<callVars, httpVars, idemVars, batchVars,
                                          lookupVars, upsertVars, classifyVars,
                                          logVars, feishuVars, tokenConcVars,
                                          regionVars>>]_vars

\* The error classifiers applied to one raw failure.
SpecClassify ==
    InitIdle /\ [][NextClassify /\ UNCHANGED <<callVars, httpVars, idemVars, batchVars,
                                               lookupVars, upsertVars, logVars, feishuVars, regionVars, tokenConcVars, keyVars>>]_vars

(***************************************************************************)
(* Claims: retry executors                                                 *)
(***************************************************************************)
\* an invocation of fn that ended in a failure classified retryable
CallOutcomeRetryable(o) == o = "deadline" \/ o \in {"Throttled", "Timeout", "Upstream"}

\* the attempts call allows for a retry setting: the setting counts retries
\* and is clamped into 0..3, and the first attempt comes on top
CallMaxAttempts(r) == IF r < 0 THEN 1 ELSE IF r > 3 THEN 4 ELSE r + 1

C2_NonRetryableShortCircuit ==
    /\ \A i \in 1..Len(cOutcomes) :
          (cOutcomes[i] \notin {"ok", "deadline", "Throttled", "Timeout", "Upstream"})
              => /\ i = Len(cOutcomes)
                 /\ cPc = "raised"
                 /\ cResult = [status |-> "raised", kind |-> cOutcomes[i]]
                 /\ Len(cSleeps) = i - 1
    /\ \A i \in 1..Len(hOutcomes) :
          (/\ hOutcomes[i].kind = "response"
           /\ ~(200 <= hOutcomes[i].status /\ hOutcomes[i].status < 300)
           /\ hOutcomes[i].status # 429
           /\ hOutcomes[i].status < 500)
              => /\ i = Len(hOutcomes)
                 /\ hPc = "done"
                 /\ hResult.status = "fail"
                 /\ hResult.attempt = i
                 /\ Len(hSleeps) = i - 1

\* a first attempt failed as Auth with retries left, and call raised at once
C2_Witness ==
    /\ cPc = "raised"
    /\ cRetries >= 2
    /\ cOutcomes = <<"Auth">>
    /\ cSleeps = <<>>

\* C3 as stated: whatever the retry setting, one executor call invokes the
\* underlying operation at most 3 times.
C3_AtMostThreeInvocations ==
    /\ Len(cOutcomes) <= 3
    /\ Len(hOutcomes) <= 3

\* C3 amended: the cloud executors clamp the setting into 0..3 as a number of
\* retries, so one call invokes fn at most 4 times (setting + 1 when the
\* setting is in 0..3); the HTTP executor clamps it into 1..3 as a number of
\* attempts and sends at most 3 requests (a loop whose max_retries is below
\* 1 sends none).
C3_AttemptCap ==
    /\ Len(cOutcomes) <= 4
    /\ cPc # "idle" => Len(cOutcomes) <= CallMaxAttempts(cRetries)
    /\ Len(hOutcomes) <= 3
    /\ hPc # "new" => Len(hOutcomes) <= Max(hMaxRetries, 0)

\* a setting above 3 and four invocations, all failed
C3_Witness ==
    /\ cRetries > 3
    /\ cPc = "raised"
    /\ Len(cOutcomes) = 4


(***************************************************************************)
(* Claims: idempotency cache                                               *)
(***************************************************************************)
\* call j looked the cache up inside the time window its key was built in
InsideWindow(j) == Window(iCalls[j].now) = iCalls[j].key.window

\* C4 Idempotent hit: of two sequential runIdempotent calls with the same key
\* inside one TTL window, the first having produced a Response that was cached
\* (code 0), the second returns the identical Response without executing the
\* underlying operation, which so executes at most once from the first call on.
C4_IdempotentHit ==
    \A i, j \in 1..Len(iCalls) :
        (/\ i < j
         /\ iCalls[i].key = iCalls[j].key
         /\ iCalls[i].resp.code = 0
         /\ InsideWindow(j))
            => /\ iCalls[j].resp = iCalls[i].resp
               /\ ~iCalls[j].ran
               /\ Cardinality({k \in i..j : iCalls[k].key = iCalls[i].key /\ iCalls[k].ran})
                      = (IF iCalls[i].ran THEN 1 ELSE 0)

\* two calls with one key at different times of one window: one execution
C4_Witness ==
    /\ Len(iCalls) = 2
    /\ iCalls[1].key = iCalls[2].key
    /\ iCalls[1].ran /\ iCalls[1].resp.code = 0
    /\ iCalls[2].now > iCalls[1].now
    /\ InsideWindow(2)
    /\ ~iCalls[2].ran
    /\ iCalls[2].resp = iCalls[1].resp
    /\ iSerial = 1

\* the next call after i with the key of call i, or 0
NextSameKey(i) ==
    LET later == {j \in (i + 1)..Len(iCalls) : iCalls[j].key = iCalls[i].key}
    IN  IF later = {} THEN 0 ELSE CHOOSE j \in later : \A k \in later : j <= k

\* C5 Failures are never cached: at every moment each entry of the cache
\* holds a Response with code 0, and after a call that ended in failure (a
\* failed Response or an exception) the next call with the same key executes
\* the underlying operation again.
C5_FailuresNeverCached ==
    /\ \A e \in iCache : e.resp.code = 0
    /\ \A i \in 1..Len(iCalls) :
          (iCalls[i].resp.code # 0 /\ NextSameKey(i) # 0) => iCalls[NextSameKey(i)].ran

\* a failed call, then the same key again in the same window: executed again
\* and this time cached
C5_Witness ==
    /\ Len(iCalls) = 2
    /\ iCalls[1].key = iCalls[2].key
    /\ iCalls[1].ran /\ iCalls[1].resp.code = 1
    /\ InsideWindow(2)
    /\ iCalls[2].ran /\ iCalls[2].resp.code = 0
    /\ \E e \in iCache : e.key = iCalls[2].key /\ e.resp = iCalls[2].resp

\* C10 Idempotency under concurrency: two threads calling runIdempotent with
\* one key in one window, nothing cached yet, never both miss the cache and
\* both execute the underlying operation.
C10_NoDoubleExecution ==
    \A t1, t2 \in AllThreads :
        (t1 # t2 /\ iPc[t1] = "called" /\ iPc[t2] = "called") => iKey[t1] # iKey[t2]


(***************************************************************************)
(* Claims: parallel batch                                                  *)
(***************************************************************************)
\* the batch call went past its max_workers guard and returned a summary
BatchSummarised == bPc = "done" /\ bMaxWorkers >= 1

\* item i has a key, and an earlier item has the same key
IsLaterOccurrence(i) ==
    /\ KeyOf(bItems, i) # "ERR"
    /\ \E h \in Indexes(bItems) : h < i /\ KeyOf(bItems, h) = KeyOf(bItems, i)

\* item i has a key no earlier item has: it is enqueued
IsEnqueued(i) == KeyOf(bItems, i) # "ERR" /\ ~IsLaterOccurrence(i)

\* C6 Batch ordering: for an input list of M items the summary's results list
\* has exactly M entries and results[i].index = i for every i, whatever order
\* the workers complete in.
C6_BatchOrdering ==
    BatchSummarised
        => /\ Len(bReturn.results) = Len(bItems)
           /\ \A i \in Indexes(bItems) : bReturn.results[i + 1].index = i

\* a summary of a batch whose later item was collected before its earlier one
C6_Witness ==
    /\ BatchSummarised
    /\ Len(bItems) = 3
    /\ \E p, q \in 1..Len(bIndexed) : p < q /\ bIndexed[p].index > bIndexed[q].index
    /\ \A i \in Indexes(bItems) : bInvoked[i + 1] = 1 => bOutcome[i + 1] = "ok"

\* C7 Duplicate dedupe: when two items of one batch have the same dedupe key,
\* the second occurrence is recorded as a failed result with the message
\* "duplicate item" and the worker is invoked exactly once for that key, for
\* the first occurrence only.
C7_DuplicateDedupe ==
    (bPc # "idle" /\ bMaxWorkers >= 1)
        => \A i \in Indexes(bItems) :
              /\ IsLaterOccurrence(i)
                    => /\ bInvoked[i + 1] = 0
                       /\ BatchSummarised
                             => /\ bReturn.results[i + 1].code # 0
                                /\ bReturn.results[i + 1].msg = "duplicate item"
                                /\ bReturn.results[i + 1].key = KeyOf(bItems, i)
              /\ IsEnqueued(i)
                    => /\ bInvoked[i + 1] <= 1
                       /\ BatchSummarised => bInvoked[i + 1] = 1

\* k1 twice: the first occurrence ran and succeeded, the second is a duplicate
C7_Witness ==
    /\ BatchSummarised
    /\ bItems = <<"k1", "k2", "k1">>
    /\ bInvoked = <<1, 1, 0>>
    /\ bReturn.results[1].code = 0
    /\ bReturn.results[3].msg = "duplicate item"

\* C8 Per-item failure isolation: a worker that returns a failed Response or
\* throws for one item never aborts the batch: every enqueued item's worker is
\* invoked exactly once and has ended when the summary is returned, and an
\* item whose worker threw appears as a synthesized failed result at its own
\* index.
C8_FailureIsolation ==
    BatchSummarised
        => \A i \in Indexes(bItems) :
              IsEnqueued(i)
                 => /\ bInvoked[i + 1] = 1
                    /\ bOutcome[i + 1] \in WorkerOutcomes
                    /\ bReturn.results[i + 1].index = i
                    /\ bOutcome[i + 1] = "ok" => bReturn.results[i + 1].code = 0
                    /\ bOutcome[i + 1] = "fail" => bReturn.results[i + 1].code # 0
                    /\ bOutcome[i + 1] = "raise"
                          => /\ bReturn.results[i + 1].code # 0
                             /\ bReturn.results[i + 1].msg = "item exception"

\* the first worker threw, the second failed, the third succeeded all the same
C8_Witness ==
    /\ BatchSummarised
    /\ bItems = <<"k1", "k2", "k3">>
    /\ bOutcome = <<"raise", "fail", "ok">>
    /\ bInvoked = <<1, 1, 1>>
    /\ bReturn.results[3].code = 0
    /\ bReturn.code # 0


(***************************************************************************)
(* Claims: single-id resolver                                              *)
(***************************************************************************)
\* the resources a successful list query matched: the count the payload
\* reports, or without one the dicts of its results list
Matched(payload) ==
    IF payload.kind = "dict" /\ payload.hasCount
        THEN payload.count
        ELSE Cardinality({p \in 1..Len(payload.results) : payload.results[p] # "nondict"})

\* C9 Ambiguous lookup: a filtered single-id lookup whose query matches 2 or
\* more resources returns a failed Response whose data includes the match
\* count, returns none of the matching ids and leaves the lookup cache as it
\* was.
C9_AmbiguousLookup ==
    (/\ lLast.call # 0
     /\ lLast.response.code = 0
     /\ Matched(lLast.response.payload) >= 2)
        => LET h == lCalls[lLast.call] IN
           /\ h.queried
           /\ h.code # 0
           /\ h.count = Matched(lLast.response.payload)
           /\ h.id = None
           /\ ~h.store
           /\ lCache = lLast.cacheBefore

\* a query answered with two results and no count, after an id was cached for
\* another key
C9_Witness ==
    /\ lLast.call = 2
    /\ lLast.response.code = 0
    /\ ~lLast.response.payload.hasCount
    /\ lLast.response.payload.results = <<"id1", "id2">>
    /\ lCalls[2].code = 1
    /\ lCalls[2].count = 2
    /\ lCache # {}

(***************************************************************************)
(* Claims: single-id resolver under concurrency                            *)
(***************************************************************************)
\* C11 ID lookup under concurrency: two workers never have the list query
\* for one lookup key in flight at the same time, i.e. a worker's miss on a
\* key does not fall between another worker's miss and cache fill on it.
C11_SingleQueryPerKey ==
    \A t1 \in AllThreads, t2 \in AllThreads :
        (t1 # t2 /\ lPc[t1] = "querying" /\ lPc[t2] = "querying")
            => lKey[t1] # lKey[t2]

(***************************************************************************)
(* Claims: how the executors report failure                                *)
(***************************************************************************)
\* C12 (as stated) The call executor never raises: no call of the cloud
\* executor ends by raising.
C12_NeverRaises == cPc # "raised"

\* C12 (amended) The HTTP loop always ends by returning a Response, a
\* success exactly when its last request was answered 2xx.  The cloud
\* executor returns fn's result when an invocation succeeds; otherwise it
\* raises the classified error of its last invocation, and it does so only
\* when that error is non-retryable or the attempts are exhausted.
C12_FailureReporting ==
    /\ cPc = "returned" => (cResult.status = "ok" /\ Last(cOutcomes) = "ok")
    /\ cPc = "raised" =>
          /\ cResult.status = "raised"
          /\ cResult.kind \in Kinds
          /\ IF Last(cOutcomes) = "deadline"
                THEN cResult.kind = "Timeout"
                ELSE cResult.kind = Last(cOutcomes)
          /\ \/ ~IsRetryableError(cResult.kind)
             \/ Len(cOutcomes) = ClampRetries(cRetries) + 1
    /\ hPc = "done" =>
          /\ hResult.status \in {"ok", "fail"}
          /\ hResult.status = "ok" <=>
                (/\ hOutcomes # <<>>
                 /\ Last(hOutcomes).kind = "response"
                 /\ IsSuccessStatus(Last(hOutcomes).status))

\* the cloud executor raised after using up its attempts on retryable errors
C12_Witness ==
    /\ cPc = "raised"
    /\ Len(cOutcomes) > 1
    /\ Len(cOutcomes) = ClampRetries(cRetries) + 1
    /\ IsRetryableError(cResult.kind)

\* C13 Timed-out results are discarded: every attempt that exceeded its
\* deadline is logged and classified as a timeout (and, Timeout being
\* retryable, is the call's last attempt only when the attempts are used
\* up), and the value a call returns was produced by an attempt that did
\* not time out, whatever the timed-out operations ended as later.
C13_TimedOutResultsDiscarded ==
    /\ \A i \in 1..Len(cLate) :
          LET n == cLate[i].attempt + 1 IN
          /\ n <= Len(cOutcomes)
          /\ cOutcomes[n] = "deadline"
          /\ cLogs[n] \in {"timeout_retry", "timeout_fail"}
          /\ (n = Len(cOutcomes) /\ cPc # "running") =>
                /\ cPc = "raised"
                /\ cResult.kind = "Timeout"
                /\ n = ClampRetries(cRetries) + 1
    /\ cPc = "returned" =>
          \A i \in 1..Len(cLate) : cLate[i].attempt # cResult.attempt

\* a call returned after an earlier attempt timed out and its operation
\* went on to succeed
C13_Witness ==
    /\ cPc = "returned"
    /\ \E i \in 1..Len(cLate) : cLate[i].late = "ok"

\* C14 Attempt floor: whatever the retry setting, 0 and negative values
\* included, a call that got past the url guard reports its result only
\* after sending at least one request.
C14_AtLeastOneAttempt ==
    (hPc = "done" /\ ~UrlGuardFails(hClient, hUrlOk)) => hOutcomes # <<>>

(***************************************************************************)
(* Claims: idempotency window                                              *)
(***************************************************************************)
\* calls i and j are the same operation with the same payload
SameWrite(i, j) ==
    /\ iCalls[i].key.op = iCalls[j].key.op
    /\ iCalls[i].key.body = iCalls[j].key.body

\* C15 Window rollover: when a call succeeded (its Response is the one a
\* cache entry of its window holds) and a later call with the same operation
\* and payload computes its key in a later TTL window, the later call does
\* not return the earlier Response: the underlying operation is executed
\* again in the later window, by that call or by an earlier call of that
\* window whose Response it returns.
C15_WindowRollover ==
    \A i, j \in 1..Len(iCalls) :
        (/\ i < j
         /\ SameWrite(i, j)
         /\ iCalls[i].resp.code = 0
         /\ iCalls[j].key.window > iCalls[i].key.window)
            => /\ iCalls[j].resp # iCalls[i].resp
               /\ \/ iCalls[j].ran
                  \/ \E k \in (i + 1)..(j - 1) :
                        /\ iCalls[k].key = iCalls[j].key
                        /\ iCalls[k].ran
                        /\ iCalls[k].resp = iCalls[j].resp

\* a write is cached, repeated in its window (a hit), and repeated once more
\* in the next window while the entry has not yet expired: executed again
C15_Witness ==
    /\ Len(iCalls) = 3
    /\ SameWrite(1, 2) /\ SameWrite(2, 3)
    /\ iCalls[1].ran /\ iCalls[1].resp.code = 0
    /\ ~iCalls[2].ran
    /\ iCalls[3].key.window = iCalls[1].key.window + 1
    /\ iCalls[3].now - iCalls[1].now <= Ttl
    /\ iCalls[3].ran
    /\ iSerial = 2

(***************************************************************************)
(* Claims: single-id resolver                                              *)
(***************************************************************************)
\* every filter value is null
AllNull(params) == \A n \in DOMAIN params : params[n] = None

\* C16 All-null filter short-circuit: a lookup whose filter values are all
\* null returns at once, a success "not found" with null data, without
\* issuing the list query and leaving the lookup cache as it was.
C16_AllNullShortCircuit ==
    [][\A t \in AllThreads, url \in Endpoints, params \in ParamDicts :
          (LookupBegin(t, url, params) /\ AllNull(params))
              => /\ lCache' = lCache
                 /\ lPc'[t] = "idle"
                 /\ Len(lCalls') = Len(lCalls) + 1
                 /\ Last(lCalls').code = 0
                 /\ Last(lCalls').msg = "not found"
                 /\ Last(lCalls').id = None
                 /\ ~Last(lCalls').queried]_vars

\* an all-null lookup returned on a client whose cache holds an entry
C16_Witness ==
    /\ lCalls # <<>>
    /\ Last(lCalls).key = NoLookupKey
    /\ ~Last(lCalls).queried
    /\ lCache # {}

\* lookup i queried the server and resolved its single match to an id
ResolvedId(i) ==
    /\ lCalls[i].queried
    /\ lCalls[i].code = 0
    /\ lCalls[i].msg = "found"
    /\ lCalls[i].id # None

\* C17 Lookup cache hit: after a lookup that resolved exactly one match to
\* its id, every later lookup on the client with the same endpoint and
\* filters returns that id, as a success, without issuing a list query.
C17_LookupCacheHit ==
    \A i, j \in 1..Len(lCalls) :
        (i < j /\ ResolvedId(i) /\ lCalls[j].key = lCalls[i].key)
            => /\ lCalls[j].code = 0
               /\ lCalls[j].id = lCalls[i].id
               /\ ~lCalls[j].queried

\* a lookup resolved an id and the same lookup was made again
C17_Witness ==
    /\ Len(lCalls) = 2
    /\ ResolvedId(1)
    /\ lCalls[2].key = lCalls[1].key
    /\ ~lCalls[2].queried
    /\ lCalls[2].id = lCalls[1].id

\* C18 Lookup cache content: at every moment each cache entry is a non-null
\* id that a lookup with the entry's key resolved from a successful query;
\* the query that returned last changed the cache only if it succeeded and
\* matched exactly one resource, and then by the entry for its key and id;
\* a lookup that ends as not found, ambiguous or failed leaves the cache as
\* it was.
C18_LookupCacheContent ==
    /\ \A e \in lCache :
          /\ e.id # None
          /\ \E i \in 1..Len(lCalls) :
                ResolvedId(i) /\ lCalls[i].key = e.key /\ lCalls[i].id = e.id
    /\ lLast.call # 0 =>
          LET h == lCalls[lLast.call] IN
          /\ lCache # lLast.cacheBefore =>
                /\ lLast.response.code = 0
                /\ Matched(lLast.response.payload) = 1
                /\ ResolvedId(lLast.call)
                /\ lCache \ lLast.cacheBefore = {[key |-> h.key, id |-> h.id]}
          /\ (h.code # 0 \/ h.id = None) => lCache = lLast.cacheBefore

\* a lookup that matched one resource without an id ended as found with null
\* data, and the cache still holds only the entry it held before
C18_Witness ==
    /\ lLast.call = 2
    /\ lLast.response.code = 0
    /\ Matched(lLast.response.payload) = 1
    /\ lCalls[2].code = 0
    /\ lCalls[2].id = None
    /\ lLast.cacheBefore # {}
    /\ lCache = lLast.cacheBefore

C20_BatchOverallCode ==
    BatchSummarised
        => /\ bReturn.code # 0 <=> bReturn.failed > 0
           /\ bReturn.failed =
                 Cardinality({p \in 1..Len(bReturn.results) :
                                 bReturn.results[p].code # 0})
           /\ Len(bReturn.results) = Len(bItems)
           /\ \A i \in Indexes(bItems) :
                 (IsEnqueued(i) /\ bOutcome[i + 1] = "ok")
                     => /\ bReturn.results[i + 1].code = 0
                        /\ bReturn.results[i + 1].msg = "worker ok"
                        /\ bReturn.results[i + 1].key = KeyOf(bItems, i)

\* a batch with one failed and one successful item: overall failure, the
\* success still listed
C20_Witness ==
    /\ BatchSummarised
    /\ bReturn.code # 0
    /\ bReturn.failed = 1
    /\ bReturn.success = 1
    /\ \E p \in 1..Len(bReturn.results) : bReturn.results[p].code = 0

(***************************************************************************)
(* Claims: batch scheduling                                                *)
(***************************************************************************)
\* the items of the batch that were submitted to the pool
EnqueuedItems == {i \in Indexes(bItems) : IsEnqueued(i)}

\* C21 Batch is blocking: once the batch call has returned, no worker of it
\* is executing or waiting to start, and every scheduled worker has been
\* invoked and has ended; a returned batch stays that way.
C21_BatchBlocking ==
    bPc = "done"
        => /\ bRunning = {}
           /\ bQueue = <<>>
           /\ bMaxWorkers >= 1 =>
                 \A i \in EnqueuedItems :
                     /\ bInvoked[i + 1] = 1
                     /\ bOutcome[i + 1] \in WorkerOutcomes

\* a batch of three scheduled items on two pool threads has returned
C21_Witness ==
    /\ bPc = "done"
    /\ Cardinality(EnqueuedItems) = 3
    /\ bWorkerCount = 2
    /\ bInvoked = <<1, 1, 1>>

\* C22 Bounded worker pool: at every moment of a batch call the number of
\* workers executing at once is at most min(maxWorkers, number of enqueued
\* non-duplicate items).
C22_BoundedPool ==
    bMaxWorkers >= 1
        => /\ Cardinality(bRunning) <= Min(bMaxWorkers, Cardinality(EnqueuedItems))
           /\ bPeak <= Min(bMaxWorkers, Cardinality(EnqueuedItems))

\* the pool is full while a submitted item waits
C22_Witness ==
    /\ bPc = "pool"
    /\ bQueue # <<>>
    /\ Cardinality(bRunning) = bMaxWorkers
    /\ bMaxWorkers < Cardinality(EnqueuedItems)

\* C23 Real parallelism: with at least two enqueued items and maxWorkers of
\* at least 2 the pool has at least two threads, and while one worker is
\* executing and a submitted item waits, that item's worker can start: items
\* are not serialised behind one another.
C23_RealParallelism ==
    (bPc = "pool" /\ bMaxWorkers >= 2 /\ Cardinality(EnqueuedItems) >= 2)
        => /\ bWorkerCount >= 2
           /\ (Cardinality(bRunning) = 1 /\ bQueue # <<>>) => ENABLED WorkerStart

\* a batch in which two workers were executing at once has returned: every
\* item succeeded and the results are in input order
C23_Witness ==
    /\ BatchSummarised
    /\ bPeak >= 2
    /\ Len(bItems) >= 2
    /\ bReturn.code = 0
    /\ bReturn.success = Len(bItems)
    /\ \A i \in Indexes(bItems) : bReturn.results[i + 1].index = i

(***************************************************************************)
(* Claims: error classification                                            *)
(***************************************************************************)
\* the failure classified last carries an explicit timeout signal: its
\* message says timeout
HasTimeoutSignal ==
    IF kErr.provider = "aliyun"
        THEN "timeout" \in kErr.err.msg
        ELSE "timeout" \in kErr.err.raw

\* C24 Classification order: a failure that carries an explicit timeout
\* signal is classified Timeout, also when its vendor code or message
\* matches an auth, permission, throttling, region or not-found rule.
C24_TimeoutSignalWins ==
    (kKind # "none" /\ HasTimeoutSignal) => kKind = "Timeout"

(***************************************************************************)
(* Claims: logging                                                         *)
(***************************************************************************)
\* C25 Secret-free logging: no emitted log line contains the configured
\* secret, whatever the result tag (success, retry, failure); a line holds
\* its labels and the task id, target, result tag and duration only.
C25_SecretFreeLogging ==
    \A line \in gLines :
        /\ gSecret \notin line
        /\ \E ctx \in LogContexts(gSecret) :
              line = {"task_id=", " target=", " result=", " duration_ms="}
                        \cup ctx.task_id \cup ctx.target \cup ctx.result
                        \cup ctx.duration_ms

\* a success line and a failure line were logged by a client with a secret
C25_Witness ==
    /\ gSecret \in Secrets
    /\ \E line \in gLines : "ok" \in line
    /\ \E line \in gLines : "fail" \in line

(***************************************************************************)
(* Claims: Feishu token                                                    *)
(***************************************************************************)
\* a cached token is valid at the time of the call: it exists and more than
\* the refresh buffer remains before it expires
CachedValid(c, now) == c.token # 0 /\ c.expires_at - now > tBuffer

\* C26 Token cache: get_token calls the fetcher only when neither the token
\* in memory nor the token of the cache file is valid (expires_at - now >
\* refresh buffer); while a valid token is cached, get_token returns that
\* token and does not call the fetcher.
C26_TokenCache ==
    tLast.op = "get_token" =>
        /\ tLast.fetched =>
              /\ ~CachedValid(tLast.memory, tLast.now)
              /\ ~CachedValid(tLast.file, tLast.now)
        /\ CachedValid(tLast.memory, tLast.now) =>
              ~tLast.fetched /\ tLast.code = 0 /\ tLast.token = tLast.memory.token
        /\ (~CachedValid(tLast.memory, tLast.now) /\ CachedValid(tLast.file, tLast.now)) =>
              ~tLast.fetched /\ tLast.code = 0 /\ tLast.token = tLast.file.token

\* a call answered from memory after the clock moved, with a token that was
\* fetched, not read from the file
C26_Witness ==
    /\ tLast.op = "get_token"
    /\ tLast.now > 0
    /\ ~tLast.fetched
    /\ tLast.memory.token = tLast.token
    /\ tLast.file.token # tLast.token

\* a call made after the cached token lost its validity called the fetcher
C26_WitnessExpired ==
    /\ tLast.op = "get_token"
    /\ tLast.fetched
    /\ tLast.memory.token # 0
    /\ tLast.memory.expires_at - tLast.now <= tBuffer

\* C27 Refresh once: one Client.request call force-refreshes the token at
\* most once, even when the API keeps answering with an invalid-token error.
C27_RefreshOnce == qForced <= 1

\* the request ended after two invalid-token answers and one refresh
C27_Witness ==
    /\ qPc = "done"
    /\ qInvalid >= 2
    /\ qForced = 1

(***************************************************************************)
(* Claims: Volc region                                                     *)
(***************************************************************************)
\* C28 Region restore: inside a use_region(r) block the shared API client's
\* region is the override (the configured region when r is None), and when
\* the block exits, by return or by exception, the region is the one that
\* was set before the block.
C28_RegionRestore ==
    /\ rStack # <<>> =>
          rRegion = (IF Last(rStack).region = None THEN rDefault ELSE Last(rStack).region)
    /\ rLast.op = "exit" => rRegion = rLast.previous_region

\* a block that overrode a region set by set_region was left by an exception
C28_Witness ==
    /\ rLast.op = "exit"
    /\ rLast.how = "raise"
    /\ rLast.region \notin {None, rLast.previous_region}
    /\ rLast.previous_region # rDefault
    /\ rRegion = rLast.previous_region
    /\ rStack = <<>>

(***************************************************************************)
(* Claims: backoff placement, unretryable wrapper                          *)
(***************************************************************************)
\* a request of an HTTP loop that failed in a way its client retries: an
\* exception of the transport, or a status of the client's retry set
HttpOutcomeRetryable(o) ==
    \/ o.kind = "exception"
    \/ /\ o.kind = "response"
       /\ IF hClient = "dida365" THEN o.status \in {429, 500, 502, 503, 504}
                                 ELSE o.status = 429 \/ o.status >= 500

C29_WitnessCall ==
    /\ cPc = "raised"
    /\ cBase = 1
    /\ Len(cOutcomes) = 4
    /\ \A i \in 1..4 : CallOutcomeRetryable(cOutcomes[i])
    /\ cSleeps = <<1, 2, 4>>

\* C30 Unretryable wrapper: a failure the vendor SDK wraps as unretryable is
\* classified Upstream, and the executor re-invokes fn for it while attempts
\* remain: the attempt is followed by a sleep and the call goes on; only on
\* the last attempt the call raises, with kind Upstream.
C30_UnretryableWrapper ==
    \A a \in cWrapped :
        /\ cOutcomes[a + 1] = "Upstream"
        /\ IF a < CallMaxAttempts(cRetries) - 1
              THEN /\ Len(cSleeps) >= a + 1
                   /\ cPc = "running" \/ Len(cOutcomes) >= a + 2
              ELSE /\ cPc = "raised"
                   /\ cResult = [status |-> "raised", kind |-> "Upstream"]
                   /\ Len(cSleeps) = a

\* fn raised the wrapper on the first attempt and was invoked again
C30_Witness ==
    /\ 0 \in cWrapped
    /\ Len(cOutcomes) = 2
    /\ cOutcomes[2] = "ok"
    /\ cPc = "returned"

(***************************************************************************)
(* Claims: log tags, attempt overlap                                       *)
(***************************************************************************)
\* C31 Log tag matches transition: every attempt emits exactly one log
\* line, and its tag agrees with the transition taken: ok on success, a
\* retry / timeout_retry tag exactly when another attempt follows, a fail /
\* timeout_fail tag exactly when the call ends in failure on that attempt.
C31_LogTagMatchesTransition ==
    /\ Len(cLogs) = Len(cOutcomes)
    /\ \A i \in 1..Len(cLogs) :
          LET followed == i < Len(cOutcomes) \/ cPc = "running"
              endsHere == i = Len(cOutcomes) /\ cPc = "raised"
          IN  /\ cLogs[i] = "ok" <=> cOutcomes[i] = "ok"
              /\ cLogs[i] \in {"retry", "timeout_retry"} <=> (cOutcomes[i] # "ok" /\ followed)
              /\ cLogs[i] \in {"fail", "timeout_fail"} <=> endsHere
              /\ cLogs[i] \in {"timeout_retry", "timeout_fail"} <=> cOutcomes[i] = "deadline"
    /\ Len(hLogs) = Len(hOutcomes)

\* the attempts that were classified as an expired deadline
DeadlineOutcomes == {i \in 1..Len(cOutcomes) : cOutcomes[i] = "deadline"}

\* C32 Attempts never overlap: no attempt starts while the fn of an earlier,
\* timed-out attempt is still running, so at most one invocation of fn is in
\* flight at any time; and each timed-out attempt uses up exactly one attempt
\* of the budget.
C32_AttemptsNeverOverlap ==
    /\ cPeak <= 1
    /\ Cardinality(cInFlight) <= 1
    /\ cInFlight # {} => (cExpired # <<>> /\ cInFlight = {cExpired[1].attempt})
    /\ Len(cLate) = Cardinality(DeadlineOutcomes)
    /\ \A i \in 1..Len(cLate) : cLate[i].attempt + 1 \in DeadlineOutcomes
    /\ \A i, j \in 1..Len(cLate) : cLate[i].attempt = cLate[j].attempt => i = j
    /\ Len(cOutcomes) + Len(cExpired) <= CallMaxAttempts(cRetries)

\* two attempts timed out one after the other and a third one was made
C32_Witness ==
    /\ Len(cLate) = 2
    /\ Len(cOutcomes) = 3
    /\ cOutcomes[1] = "deadline"
    /\ cOutcomes[2] = "deadline"
    /\ cInFlight = {}
    /\ cPeak = 1

(***************************************************************************)
(* Claims: Feishu resend                                                   *)
(***************************************************************************)
\* C33 Resend after refresh: when the API answered with an invalid-token
\* error and the forced refresh succeeded, the request has been sent again
\* with the refreshed token by the time the call returns, on whichever
\* attempt the invalid-token answer arrived.
C33_ResendAfterRefresh ==
    (qPc = "done" /\ qRefreshed # 0) => qResent = qRefreshed

(***************************************************************************)
(* Claims: lookup totality                                                 *)
(***************************************************************************)
\* C34 Lookup is total: for every payload of a successful list query the
\* single-id lookup returns a Response (code 0 or 1) and never raises; when
\* the reported count is 1 while the results list holds no dict, or the
\* single result has no id, it returns no id and caches nothing.
C34_LookupIsTotal ==
    (lLast.call # 0 /\ lLast.response.code = 0)
        => LET h == lCalls[lLast.call]
               payload == lLast.response.payload
               dicts == {p \in 1..Len(payload.results) : payload.results[p] # "nondict"}
           IN  /\ h.code \in {0, 1}
               /\ (/\ payload.kind = "dict"
                   /\ payload.hasCount
                   /\ payload.count = 1
                   /\ \/ dicts = {}
                      \/ \A p \in dicts : payload.results[p] = "noid")
                     => /\ h.code = 0
                        /\ h.id = None
                        /\ ~h.store
                        /\ lCache = lLast.cacheBefore

(***************************************************************************)
(* Claims: token fetch under concurrency                                   *)
(***************************************************************************)
\* C35 Single token fetch under concurrency: when the threads called
\* get_token while no valid token was cached, their calls have all
\* returned, and the fetcher answered with a token that is valid (more than
\* the buffer remains, to the end), the fetcher was called exactly once and
\* every caller got that token.
C35_SingleFetch ==
    (/\ \A t \in AllThreads : mPc[t] = "done"
     /\ mCold
     /\ \A i \in 1..Len(mFetched) :
          /\ mFetched[i].code = 0
          /\ mFetched[i].token # 0
          /\ mFetched[i].expires_at - tNow > tBuffer)
        => /\ Len(mFetched) = 1
           /\ \A t \in AllThreads : mGot[t] = mFetched[1].token

\* two calls that overlapped, one fetch, one token for both
C35_Witness ==
    /\ mOverlap
    /\ mCold
    /\ \A t \in AllThreads : mPc[t] = "done"
    /\ Len(mFetched) = 1
    /\ mFetched[1].token # 0
    /\ \A t \in AllThreads : mGot[t] = mFetched[1].token

(***************************************************************************)
(* Claims: idempotency keys                                                *)
(***************************************************************************)
\* C36 Key injectivity: two write requests get the same idempotency key if
\* and only if they have the same operation name, fall in the same time
\* window and have equal payload parts.
C36_KeyInjectivity ==
    (jReq[1].op # "" /\ jReq[2].op # "")
        => (jKey[1] = jKey[2]
              <=> /\ jReq[1].op = jReq[2].op
                  /\ jReq[1].t \div Ttl = jReq[2].t \div Ttl
                  /\ jReq[1].parts = jReq[2].parts)

(***************************************************************************)
(* Claims: batch counts, key errors, worker count                          *)
(***************************************************************************)
\* item i of the input repeats the key of an earlier item
RepeatsEarlierKey(i) ==
    /\ bItems[i + 1] # "ERR"
    /\ \E j \in 0..(i - 1) : bItems[j + 1] = bItems[i + 1]

\* the items of the input that count as failed: key error, duplicate, a
\* worker that returned a failure or raised
FailedItems ==
    {i \in Indexes(bItems) :
        \/ bItems[i + 1] = "ERR"
        \/ RepeatsEarlierKey(i)
        \/ bOutcome[i + 1] \in {"fail", "raise"}}

\* C37 Batch count consistency: in every batch summary total is the number
\* of input items and success + failed = total; duplicates, key errors and
\* failing or raising workers are each counted once as failed.
C37_BatchCounts ==
    (bPc = "done" /\ bMaxWorkers >= 1)
        => /\ bReturn.total = Len(bItems)
           /\ bReturn.success + bReturn.failed = bReturn.total
           /\ bReturn.failed = Cardinality(FailedItems)
           /\ Len(bReturn.results) = bReturn.total

\* a batch with a key error, a duplicate and a raising worker
C37_Witness ==
    /\ bPc = "done"
    /\ bItems = <<"k1", "ERR", "k1">>
    /\ bOutcome[1] = "raise"
    /\ bReturn.failed = 3

\* C38 Key computation failure: an item whose dedupe key cannot be computed
\* is recorded as failed at its own index, its worker is never invoked, and
\* the other items are processed as usual: each first occurrence of a key is
\* handed to a worker once and its result is recorded.
C38_KeyError ==
    (bPc = "done" /\ bMaxWorkers >= 1)
        => /\ Len(bReturn.results) = Len(bItems)
           /\ \A i \in Indexes(bItems) :
                 LET entry == bReturn.results[i + 1] IN
                 /\ entry.index = i
                 /\ bItems[i + 1] = "ERR" =>
                       /\ entry.code = 1
                       /\ entry.msg = "item key error"
                       /\ bInvoked[i + 1] = 0
                 /\ (bItems[i + 1] # "ERR" /\ ~RepeatsEarlierKey(i)) =>
                       /\ bInvoked[i + 1] = 1
                       /\ bOutcome[i + 1] \in WorkerOutcomes
                       /\ entry.code = (IF bOutcome[i + 1] = "ok" THEN 0 ELSE 1)

\* a key error on the first item, the two items after it worked on
C38_Witness ==
    /\ bPc = "done"
    /\ bItems = <<"ERR", "k1", "k2">>
    /\ bInvoked = <<0, 1, 1>>
    /\ bOutcome[2] = "ok"
    /\ bOutcome[3] = "ok"

\* C39 Invalid worker count: a batch call with max_workers < 1 returns a
\* failed Response, invokes no worker and computes no dedupe key.
C39_InvalidWorkerCount ==
    (bPc # "idle" /\ bMaxWorkers < 1)
        => /\ bPc = "done"
           /\ bReturn = [code |-> 1, msg |-> "max_workers must be >= 1"]
           /\ \A p \in 1..Len(bItems) : bInvoked[p] = 0
           /\ bKeyCalls = 0

\* a batch of three items called with max_workers = 0
C39_Witness ==
    /\ bPc = "done"
    /\ bMaxWorkers = 0
    /\ Len(bItems) = 3


\* the clock value read by the latest lookup of _run_idempotent
LastLookupNow ==
    IF \E t \in AllThreads : iPc[t] \in {"calling", "called"}
       THEN iNow[CHOOSE t \in AllThreads : iPc[t] \in {"calling", "called"}]
       ELSE IF iCalls # <<>> THEN Last(iCalls).now ELSE 0

\* C40: when _run_idempotent has looked a key up at time t, no entry with
\* t - createdAt > ttl is left in the cache, whatever its key, and a call
\* answered from the cache got the result of an execution that is at most ttl
\* older than its own lookup.
C40_LazySweep ==
    /\ \A e \in iCache : LastLookupNow - e.at <= Ttl
    /\ \A j \in 1..Len(iCalls) :
          ~iCalls[j].ran =>
              \E i \in 1..(j - 1) :
                  /\ iCalls[i].ran
                  /\ iCalls[i].key = iCalls[j].key
                  /\ iCalls[i].resp = iCalls[j].resp
                  /\ iCalls[j].now - iCalls[i].now <= Ttl

\* a lookup of one key has swept the expired entry of another key
C40_Witness ==
    /\ Len(iCalls) = 1
    /\ iCalls[1].ran /\ iCalls[1].resp.code = 0
    /\ \E t \in AllThreads :
          /\ iPc[t] = "calling"
          /\ iKey[t] # iCalls[1].key
          /\ iNow[t] - iCalls[1].now > Ttl
    /\ iCache = {}

====
